---- MODULE Spec2Model ----
(***************************************************************************)
(* Model of the RASEN orchestrator's main loop (src/src/rasen/loop.py)     *)
(* together with the stores, the event protocol, the backpressure          *)
(* validator and the review / QA sub-loops it calls.                       *)
(*                                                                         *)
(* Conventions.                                                            *)
(*  - Subtask ids are the positions 1..Len(plan.subtasks) of the plan;     *)
(*    0 stands for "no subtask" (Python None).                             *)
(*  - A commit hash is the number of commits on HEAD; 0 stands for the     *)
(*    empty string that _get_commit_hash returns without a repository.     *)
(*  - A status string f"failed: {reason}" is the pair status = "failed",   *)
(*    detail = reason.                                                     *)
(*  - A Python exception that leaves a function is an outcome record       *)
(*    [kind |-> "raise", exc |-> <class name>].                            *)
(*  - The status file named by config.background.status_file and the one   *)
(*    the sub-loops open (project_dir/.rasen/status.json) are the same     *)
(*    file, as they are under the default configuration.                   *)
(***************************************************************************)
EXTENDS Integers, Sequences, FiniteSets, TLC

\* ------------------------------------------------------------------ bounds
MaxSubtasks == 2
MaxIterations == 2
MaxNoCommit == 2
MaxFailures == 2
MaxReviewLoops == 1
MaxQAIterations == 2
MaxThreshold == 2
MaxCommitsPerSession == 1
MaxEvents == 2
MaxIssues == 1
MaxOps == 1
\* Times each terminal may invoke `rasen run` / `rasen resume`.
MaxRuns == 2
\* Length of the prompt and of what the child prints, in pipe-sized units,
\* and the session timeout in clock ticks.
MaxPrompt == 2
MaxOut == 2
Timeout == 2
\* MetricsStore: record_session calls followed, token counts and clock values.
MaxRecords == 3
MaxTokens == 1
MaxTime == 2
\* MemoryStore: append calls followed.
MaxAppends == 3

\* ------------------------------------------------------- values and types
None == 0

SubtaskStatus == {"pending", "in_progress", "completed", "failed"}

TerminationReason ==
  {"complete", "max_iterations", "max_runtime", "stalled", "consecutive_failures",
   "loop_thrashing", "user_cancelled", "session_timeout", "error"}

\* Event(topic, payload): the payload is kept as the two pieces of text it
\* is made of, what it says about the tests and what it says about lint, as
\* the agent typed them ("" when it says nothing).
Event(topic, tests, lint) == [topic |-> topic, tests |-> tests, lint |-> lint]

Events ==
  {Event("build.done", "tests: pass", "lint: pass"), Event("build.done", "TESTS: PASS", ""),
   Event("build.blocked", "", ""), Event("memory.store", "", "")}

RECURSIVE SeqsUpTo(_, _)
SeqsUpTo(S, n) ==
  IF n = 0 THEN {<<>>}
  ELSE LET shorter == SeqsUpTo(S, n - 1)
       IN shorter \cup {Append(q, x) : q \in {r \in shorter : Len(r) = n - 1}, x \in S}

EventLists == SeqsUpTo(Events, MaxEvents)

ReturnCodes == {0, 1}

\* A QA issue text: a base wording, possibly typed with capitals and with
\* surrounding blanks.  _normalize_issue removes both.
Issue(base, upper, padded) == [base |-> base, upper |-> upper, padded |-> padded]

Issues == {Issue("bug", FALSE, FALSE), Issue("bug", TRUE, TRUE), Issue("leak", FALSE, FALSE)}

IssueLists == SeqsUpTo(Issues, MaxIssues)

\* ------------------------------------------------------------------- state
VARIABLES
  config,             \* Config (frozen for the run)
  task_description,   \* OrchestrationLoop.task_description ("" or a task)
  git,                \* the working tree: [repo, head]
  plan,               \* .rasen/state.json: [exists, subtasks, review, qa]
  status_file,        \* status.json: [exists, status, detail, iteration, subtask_id]
  history,            \* attempt_history.json: sequence of AttemptRecord
  good_commits,       \* good_commits.json: sequence of {hash, subtask_id}
  state,              \* LoopState
  no_commit_counts,   \* OrchestrationLoop.no_commit_counts
  baseline_commit,    \* OrchestrationLoop.baseline_commit
  shutdown_requested, \* daemon._shutdown_requested
  pc,                 \* position of run(): "loop", "initializer", "select", "qa", "done"
  reason,             \* the TerminationReason returned by run(), "none" before
  qa,                 \* locals of run_qa_loop: [iteration, issue_counts, baseline, escalated]
  sessions,           \* number of agent sessions started, per role
  last,               \* what the last coder session of the main loop did
  boot,               \* whether a plan existed at the start, and how the initializer ended
  fs,                 \* one store file and its temporary: paths, inodes, flock holders
  procs,              \* the processes that use that store file
  cli,                \* `rasen run` invocations on one state directory and the PID file
  runner,             \* one run_claude_session call: parent, child and their pipes
  call,               \* one call of a function of the package: arguments and result
  elapsed,            \* time since LoopState.started_at against max_runtime_seconds
  metrics,            \* .rasen/metrics.json and the record_session calls made on it
  memory              \* the memories file and the MemoryStore.append calls made on it

loopVars ==
  <<config, task_description, git, plan, status_file, history, good_commits, state,
    no_commit_counts, baseline_commit, shutdown_requested, pc, reason, qa, sessions, last,
    boot>>

storeVars == <<fs, procs>>

subsystemVars == <<fs, procs, cli, runner, call, elapsed, metrics, memory>>

\* Everything the store operations leave alone.
notStoreVars == <<loopVars, cli, runner, call, elapsed, metrics, memory>>

vars == <<loopVars, subsystemVars>>

\* ------------------------------------------------------------ config.py
\* The review and QA settings are drawn as whole sections; a disabled
\* section keeps its defaults.
ReviewConfigs ==
  {[enabled |-> FALSE, per_subtask |-> FALSE, max_loops |-> MaxReviewLoops]}
    \cup [enabled : {TRUE}, per_subtask : BOOLEAN, max_loops : 1..MaxReviewLoops]

QAConfigs ==
  {[enabled |-> FALSE, max_iterations |-> MaxQAIterations,
    recurring_issue_threshold |-> MaxThreshold]}
    \cup [enabled : {TRUE}, max_iterations : {MaxQAIterations},
          recurring_issue_threshold : {MaxThreshold}]

Configs ==
  {[max_iterations |-> mi,
    max_no_commit_sessions |-> nc,
    max_consecutive_failures |-> cf,
    review_enabled |-> r.enabled,
    review_per_subtask |-> r.per_subtask,
    review_max_loops |-> r.max_loops,
    qa_enabled |-> q.enabled,
    qa_max_iterations |-> q.max_iterations,
    recurring_issue_threshold |-> q.recurring_issue_threshold,
    require_tests |-> rt,
    require_lint |-> rt] :
     mi \in 1..MaxIterations, nc \in 1..MaxNoCommit, cf \in 1..MaxFailures,
     r \in ReviewConfigs, q \in QAConfigs, rt \in BOOLEAN}

\* Attributes and methods of the Config model.
ConfigAttributes ==
  {"project", "orchestrator", "agent", "worktree", "memory", "backpressure",
   "background", "stall_detection", "review", "qa"}

\* ------------------------------------------------------------- events.py
has_completion_event(events) ==
  \E i \in 1..Len(events) : events[i].topic \in {"build.done", "init.done"}

has_blocked_event(events) ==
  \E i \in 1..Len(events) : events[i].topic = "build.blocked"

\* --------------------------------------------------------- validation.py
\* str.lower on the texts above.
lower(text) ==
  CASE text = "TESTS: PASS" -> "tests: pass"
    [] text = "LINT: PASS" -> "lint: pass"
    [] OTHER -> text

\* `token in payload_lower`.
Contains(payload_lower, token) == payload_lower.tests = token \/ payload_lower.lint = token

\* A validation that looks at the last completion event of the list.
validate_completion_last(events, backpressure_config) ==
  LET idx == {i \in 1..Len(events) : events[i].topic \in {"build.done", "init.done"}}
  IN IF idx = {} THEN FALSE
     ELSE LET completion_event == events[CHOOSE i \in idx : \A j \in idx : i >= j]
              payload_lower == [tests |-> lower(completion_event.tests),
                                lint |-> lower(completion_event.lint)]
          IN /\ ~(backpressure_config.require_tests
                    /\ ~Contains(payload_lower, "tests: pass")
                    /\ ~Contains(payload_lower, "test pass"))
             /\ ~(backpressure_config.require_lint
                    /\ ~Contains(payload_lower, "lint: pass")
                    /\ ~Contains(payload_lower, "lint pass"))

validate_completion(events, backpressure_config) ==
  LET idx == {i \in 1..Len(events) : events[i].topic \in {"build.done", "init.done"}}
  IN IF idx = {} THEN FALSE
     ELSE LET completion_event == events[CHOOSE i \in idx : \A j \in idx : i <= j]
              payload_lower == [tests |-> lower(completion_event.tests),
                                lint |-> lower(completion_event.lint)]
          IN /\ ~(backpressure_config.require_tests
                    /\ ~Contains(payload_lower, "tests: pass")
                    /\ ~Contains(payload_lower, "test pass"))
             /\ ~(backpressure_config.require_lint
                    /\ ~Contains(payload_lower, "lint: pass")
                    /\ ~Contains(payload_lower, "lint pass"))

\* The event lists validate_completion is called on by its callers and tests.
ClaimTexts ==
  [tests |-> {"", "tests: pass", "TESTS: PASS", "test pass"},
   lint |-> {"", "lint: pass", "LINT: PASS"}]

ClaimEvents ==
  {Event(topic, t, l) : topic \in {"build.done", "init.done", "memory.store"},
                        t \in ClaimTexts.tests, l \in ClaimTexts.lint}

\* ---------------------------------------------------------------- git.py
_get_commit_hash(g) == IF g.repo /\ g.head > 0 THEN g.head ELSE 0

_count_commits_since(g, since_commit) ==
  IF since_commit = 0 \/ ~g.repo THEN 0 ELSE g.head - since_commit

\* ------------------------------------------------------- status_store.py
StatusInfoFields ==
  {"pid", "iteration", "subtask_id", "subtask_description", "last_activity",
   "status", "total_commits", "completed_subtasks", "total_subtasks"}

NoStatus == [exists |-> FALSE, status |-> "", detail |-> "", iteration |-> 0, subtask_id |-> 0]

StatusInfo(iteration, subtask_id, status) ==
  [exists |-> TRUE, status |-> status, detail |-> "", iteration |-> iteration,
   subtask_id |-> subtask_id]

\* StatusStore.update: the file is (re)written whatever it held.
update(sf, info) == info

mark_completed(sf) ==
  IF sf.exists THEN [sf EXCEPT !.status = "completed", !.detail = ""] ELSE sf

mark_failed(sf, why) ==
  IF sf.exists THEN [sf EXCEPT !.status = "failed", !.detail = why] ELSE sf

\* --------------------------------------------------------- plan_store.py
NoPlan ==
  [exists |-> FALSE, subtasks |-> <<>>,
   review |-> [status |-> "pending"], qa |-> [status |-> "pending", issues |-> <<>>]]

Plans ==
  {[exists |-> TRUE, subtasks |-> s, review |-> [status |-> "pending"], qa |-> q] :
     s \in SeqsUpTo(SubtaskStatus, MaxSubtasks),
     q \in {[status |-> "pending", issues |-> <<>>]}}

\* The plans an initializer session writes: every subtask is pending.
InitializerPlans ==
  {p \in Plans : \A i \in 1..Len(p.subtasks) : p.subtasks[i] = "pending"}

\* A search that takes the first subtask whatever its status.
FirstWith_any_status(p, st) ==
  IF p.subtasks = <<>> THEN None ELSE 1

FirstWith(p, st) ==
  LET idx == {i \in 1..Len(p.subtasks) : p.subtasks[i] = st}
  IN IF idx = {} THEN None ELSE CHOOSE i \in idx : \A j \in idx : i <= j

\* A selection that looks for pending subtasks first.
get_next_subtask_pending_first(p) ==
  IF ~p.exists THEN None
  ELSE IF FirstWith(p, "pending") # None THEN FirstWith(p, "pending")
  ELSE FirstWith(p, "in_progress")

get_next_subtask(p) ==
  IF ~p.exists THEN None
  ELSE IF FirstWith(p, "in_progress") # None THEN FirstWith(p, "in_progress")
  ELSE FirstWith(p, "pending")

\* An update that writes the first subtask, whatever the id.
_update_subtask_status_first(p, subtask_id, st) ==
  IF subtask_id \in 1..Len(p.subtasks)
  THEN [p EXCEPT !.subtasks[1] = st]
  ELSE p

_update_subtask_status(p, subtask_id, st) ==
  IF subtask_id \in 1..Len(p.subtasks)
  THEN [p EXCEPT !.subtasks[subtask_id] = st]
  ELSE p

\* A mark_in_progress that writes the status of mark_complete.
mark_in_progress_completed(p, subtask_id) == _update_subtask_status(p, subtask_id, "completed")

mark_in_progress(p, subtask_id) == _update_subtask_status(p, subtask_id, "in_progress")

mark_complete(p, subtask_id) == _update_subtask_status(p, subtask_id, "completed")

mark_subtask_failed(p, subtask_id) == _update_subtask_status(p, subtask_id, "failed")

get_completion_stats(p) ==
  IF ~p.exists THEN <<0, 0>>
  ELSE <<Cardinality({i \in 1..Len(p.subtasks) : p.subtasks[i] = "completed"}),
         Len(p.subtasks)>>

\* ----------------------------------------------------- recovery_store.py
\* Keyword parameters of RecoveryStore.record_attempt.
record_attempt_params == {"subtask_id", "session", "success", "approach", "commit_hash"}

\* Keywords OrchestrationLoop._run_session passes to record_attempt.
record_attempt_call ==
  {"subtask_id", "session", "success", "approach", "commit_hash", "error_message"}

AttemptRecord(subtask_id, session, success, commit_hash, error_message) ==
  [subtask_id |-> subtask_id, session |-> session, success |-> success,
   commit_hash |-> commit_hash, error_message |-> error_message]

\* A call whose keywords the signature does not know raises TypeError before
\* the body runs; otherwise the record is appended (no error_message is stored).
record_attempt(h, keywords, subtask_id, session, success, commit_hash) ==
  IF keywords \subseteq record_attempt_params
  THEN [kind |-> "return",
        history |-> Append(h, AttemptRecord(subtask_id, session, success, commit_hash, "none"))]
  ELSE [kind |-> "raise", history |-> h]

record_good_commit(gc, commit_hash, subtask_id) ==
  Append(gc, [hash |-> commit_hash, subtask_id |-> subtask_id])

\* -------------------------------------------------------------- review.py
\* Python truth value of a ReviewLoopResult / QALoopResult instance: neither
\* class defines __bool__ or __len__, so `if result` and `not result` see True.
truth_value(result) == TRUE

\* What one review iteration meets: the reviewer session ends in a
\* SessionError or returns after leaving a verdict in the plan (or none);
\* the coder fix session that may follow raises a SessionError or returns.
ReviewerActs == {"session_error", "none", "approved", "changes_requested"}

ReviewInputs == [1..MaxReviewLoops -> [reviewer : ReviewerActs, fix_raises : BOOLEAN]]

Raise(exc, p, nrev, nfix) ==
  [kind |-> "raise", exc |-> exc, passed |-> FALSE, plan |-> p, reviewer |-> nrev, fix |-> nfix]

Return(passed, p, nrev, nfix) ==
  [kind |-> "return", exc |-> "", passed |-> passed, plan |-> p, reviewer |-> nrev, fix |-> nfix]

\* The body of `for iteration in range(1, max_loops + 1)` from iteration i on.
RECURSIVE review_iterations(_, _, _, _, _, _, _)
review_iterations(cfg, sf, p, i, inputs, nrev, nfix) ==
  IF i > cfg.review_max_loops THEN Return(FALSE, p, nrev, nfix)
  ELSE IF sf.exists /\ "current_phase" \notin StatusInfoFields
       THEN Raise("ValueError", p, nrev, nfix)        \* status.current_phase = ...
  ELSE IF "get_model" \notin ConfigAttributes
       THEN Raise("AttributeError", p, nrev, nfix)    \* config.get_model("reviewer")
  ELSE LET act == inputs[i].reviewer
           p1 == IF act \in {"approved", "changes_requested"}
                 THEN [p EXCEPT !.review.status = act] ELSE p
           approved == \/ act = "session_error"
                       \/ ~p1.exists
                       \/ p1.review.status # "changes_requested"
       IN IF approved THEN Return(TRUE, p1, nrev + 1, nfix)
          ELSE IF i >= cfg.review_max_loops THEN Return(FALSE, p1, nrev + 1, nfix)
          ELSE IF inputs[i].fix_raises THEN Raise("SessionError", p1, nrev + 1, nfix + 1)
          ELSE review_iterations(cfg, sf, p1, i + 1, inputs, nrev + 1, nfix + 1)

run_review_loop(cfg, sf, p, inputs) ==
  IF ~cfg.review_enabled THEN Return(TRUE, p, 0, 0)
  ELSE review_iterations(cfg, sf, p, 1, inputs, 0, 0)

\* ------------------------------------------------------------------ qa.py
_normalize_issue(issue) == Issue(issue.base, FALSE, FALSE)

NormalizedIssues ==
  {_normalize_issue(i) : i \in Issues}
    \cup {Issue("qa session failed", FALSE, FALSE), Issue("no clear qa signal received", FALSE, FALSE)}

RECURSIVE record(_, _)
record(issue_counts, issues) ==
  IF issues = <<>> THEN issue_counts
  ELSE LET n == _normalize_issue(Head(issues))
       IN record([issue_counts EXCEPT ![n] = @ + 1], Tail(issues))

\* A recurrence test that needs one occurrence more than the threshold.
has_recurring_issues_above(issue_counts, threshold) ==
  \E n \in NormalizedIssues : issue_counts[n] > threshold

has_recurring_issues(issue_counts, threshold) ==
  \E n \in NormalizedIssues : issue_counts[n] >= threshold

NoQA ==
  [iteration |-> 0, issue_counts |-> [n \in NormalizedIssues |-> 0], baseline |-> 0,
   escalated |-> FALSE, result |-> "none", review |-> "not_run", act |-> "none",
   event |-> "none",
   review_inputs |-> [i \in 1..MaxReviewLoops |-> [reviewer |-> "none", fix_raises |-> FALSE]]]

\* The verdict event a QA session may print in its output (qa.approved,
\* qa.rejected), or none.
QAVerdictEvents == {"none", "approved", "rejected"}

\* What one QA iteration meets: the QA session ends in a SessionError or
\* returns after leaving a verdict in the plan, or after leaving none and
\* printing a verdict event or not; the coder fix session that may follow
\* raises a SessionError or returns.
QAActs ==
  {[kind |-> k, issues |-> <<>>, event |-> "none"] : k \in {"session_error", "approved"}}
    \cup {[kind |-> "none", issues |-> <<>>, event |-> ev] : ev \in QAVerdictEvents}
    \cup {[kind |-> "rejected", issues |-> l, event |-> "none"] : l \in IssueLists}

\* _run_qa_session, lines 404-424: the QAResult of a session, read from the
\* plan; the session's output is used for the session id and the token counts
\* only (lines 385-402), its events are not parsed.
QAResult(act, p) ==
  IF act.kind = "session_error"
  THEN [approved |-> FALSE, issues |-> <<Issue("qa session failed", FALSE, FALSE)>>]
  ELSE IF p.qa.status = "approved" THEN [approved |-> TRUE, issues |-> <<>>]
  ELSE IF p.qa.status = "rejected" THEN [approved |-> FALSE, issues |-> p.qa.issues]
  ELSE [approved |-> FALSE, issues |-> <<Issue("no clear qa signal received", FALSE, FALSE)>>]

\* ---------------------------------------------------------------- loop.py
\* OrchestrationLoop._run_session, lines 325-334.
SessionStatusOf(returncode, events) ==
  IF returncode = 0 /\ has_completion_event(events) THEN "complete"
  ELSE IF has_blocked_event(events) THEN "blocked"
  ELSE IF returncode = 0 THEN "continue"
  ELSE "failed"

\* The SessionErrors run_claude_session raises (claude_runner.py lines
\* 232-238 and 312-321): the executable is missing, the wait timed out, or
\* anything else went wrong.
SessionErrors == {"not_found", "timeout", "failed"}

NoSession ==
  [subtask |-> None, raised |-> FALSE, exc |-> "none", returncode |-> 0, completion |-> FALSE,
   valid |-> FALSE, blocked |-> FALSE, commits |-> 0, review |-> "not_run",
   zero_runs |-> [i \in 1..MaxSubtasks |-> 0]]

\* OrchestrationLoop.run, lines 188-258: what follows a coder session that
\* _run_session returned.  The result names the way the iteration ends
\* ("continue", or the exception that leaves the loop) and the state it leaves.
PostSession(cfg, p, sf, st, ncc, gc, g, subtask, commit_before, session_status, events, rin) ==
  LET commits_made == _count_commits_since(g, commit_before)
      ncc1 == IF commits_made = 0 THEN [ncc EXCEPT ![subtask] = @ + 1]
              ELSE [ncc EXCEPT ![subtask] = 0]
      st1 == IF commits_made = 0 THEN st ELSE [st EXCEPT !.total_commits = @ + commits_made]
      stalled == commits_made = 0 /\ ncc1[subtask] >= cfg.max_no_commit_sessions
      valid == session_status = "complete" /\ validate_completion(events, cfg)
      reviewed == valid /\ cfg.review_enabled /\ cfg.review_per_subtask
      rv == IF reviewed THEN run_review_loop(cfg, sf, p, rin) ELSE Return(TRUE, p, 0, 0)
      review_passed == IF reviewed THEN truth_value(rv) ELSE TRUE
      completes == valid /\ rv.kind = "return" /\ review_passed
      p2 == IF completes THEN mark_complete(rv.plan, subtask)
            ELSE IF session_status = "blocked" THEN mark_subtask_failed(rv.plan, subtask)
            ELSE rv.plan
      gc2 == IF completes THEN record_good_commit(gc, _get_commit_hash(g), subtask) ELSE gc
      st2 == IF completes THEN st1 ELSE [st1 EXCEPT !.consecutive_failures = @ + 1]
      review == IF ~reviewed THEN "not_run"
                ELSE IF rv.kind = "raise" THEN "raised"
                ELSE IF rv.passed THEN "passed" ELSE "failed"
      base == [outcome |-> "continue", detail |-> "", plan |-> p, state |-> st1,
               no_commit_counts |-> ncc1, good_commits |-> gc, review |-> "not_run",
               reviewer |-> 0, fix |-> 0]
  IN IF stalled
     THEN [base EXCEPT !.outcome = "stalled", !.detail = "stalled"]
     ELSE IF rv.kind = "raise"
     THEN [base EXCEPT !.outcome = "error", !.detail = rv.exc, !.plan = rv.plan,
                       !.review = review, !.reviewer = rv.reviewer, !.fix = rv.fix]
     ELSE [base EXCEPT
             !.outcome = IF st2.consecutive_failures >= cfg.max_consecutive_failures
                         THEN "consecutive_failures" ELSE "continue",
             !.detail = IF st2.consecutive_failures >= cfg.max_consecutive_failures
                        THEN "consecutive failures" ELSE "",
             !.plan = p2, !.state = st2, !.good_commits = gc2,
             !.review = review, !.reviewer = rv.reviewer, !.fix = rv.fix]

\* ------------------------------------------------------ stores/_atomic.py
\* One store file (attempt_history.json; state.json is handled alike) and its
\* temporary <name>.tmp, used by processes that run store operations step by
\* step.  A path names an inode (0: no such file); flock locks belong to the
\* inode that was opened, not to the path.
Procs == {"p1", "p2"}

StoreOps == {"record_attempt", "load"}

Programs == SeqsUpTo(StoreOps, MaxOps)

FileContent(records) == [valid |-> TRUE, records |-> records]

\* A file of zero bytes: model_validate_json rejects it.
EmptyFile == [valid |-> FALSE, records |-> <<>>]

NoFiles == [target |-> 0, tmp |-> 0, content |-> <<>>, locks |-> {}]

NoProc ==
  [pc |-> "idle", prog |-> <<>>, k |-> 0, op |-> "none", phase |-> "none", fd |-> 0,
   tmpfd |-> 0, data |-> <<>>, err |-> FALSE, results |-> <<>>,
   crashed_at |-> "none", crashed_alone |-> FALSE, prior |-> EmptyFile]

StoresIdle == fs = NoFiles /\ procs = [p \in Procs |-> NoProc]

\* The operation of process p returns (status "ok") or raises ("error").
Finish(p, status, read) ==
  [procs[p] EXCEPT !.pc = "idle", !.op = "none", !.phase = "none", !.fd = 0, !.tmpfd = 0,
                   !.data = <<>>, !.err = FALSE,
                   !.results = Append(@, [op |-> procs[p].op, k |-> procs[p].k,
                                          status |-> status, read |-> read])]

\* record_attempt lines 56-67 / the return of _load_history: what follows a
\* load that produced `loaded`.
AfterLoad(p, loaded) ==
  IF procs[p].op = "record_attempt"
  THEN [procs[p] EXCEPT !.phase = "save", !.pc = "touch", !.fd = 0,
                        !.data = Append(loaded, [by |-> p, n |-> procs[p].k])]
  ELSE Finish(p, "ok", loaded)

\* A process calls RecoveryStore.record_attempt or RecoveryStore._load_history.
StartOp(p) ==
  /\ procs[p].pc = "idle"
  /\ procs[p].prog # <<>>
  /\ procs' = [procs EXCEPT ![p] = [@ EXCEPT !.pc = "exists", !.op = Head(procs[p].prog),
                                             !.prog = Tail(@), !.k = @ + 1,
                                             !.phase = "load"]]
  /\ UNCHANGED fs
  /\ UNCHANGED notStoreVars

\* _load_history line 177: `if not self.history_path.exists()`.
LoadExists(p) ==
  /\ procs[p].pc = "exists"
  /\ procs' = [procs EXCEPT ![p] = IF fs.target = 0 THEN AfterLoad(p, <<>>)
                                   ELSE [@ EXCEPT !.pc = "touch"]]
  /\ UNCHANGED fs
  /\ UNCHANGED notStoreVars

\* file_lock line 56: path.touch(exist_ok=True).
FileLockTouch(p) ==
  /\ procs[p].pc = "touch"
  /\ fs' = IF fs.target # 0 THEN fs
           ELSE [fs EXCEPT !.content = Append(@, EmptyFile), !.target = Len(fs.content) + 1]
  /\ procs' = [procs EXCEPT ![p].pc = "open"]
  /\ UNCHANGED notStoreVars

\* file_lock line 58: path.open("r+b").
FileLockOpen(p) ==
  /\ procs[p].pc = "open"
  /\ procs' = [procs EXCEPT ![p] = [@ EXCEPT !.pc = "flock", !.fd = fs.target]]
  /\ UNCHANGED fs
  /\ UNCHANGED notStoreVars

LockMode(p) == IF procs[p].phase = "load" THEN "shared" ELSE "exclusive"

\* flock grants a shared lock beside shared locks only, an exclusive lock alone.
Grantable(locks, ino, p, mode) ==
  \A l \in locks :
    (l.ino = ino /\ l.proc # p) => (mode = "shared" /\ l.mode = "shared")

\* file_lock lines 60-63: fcntl.flock blocks until the lock is granted.
FileLockAcquire(p) ==
  /\ procs[p].pc = "flock"
  /\ Grantable(fs.locks, procs[p].fd, p, LockMode(p))
  /\ fs' = [fs EXCEPT !.locks = @ \cup {[ino |-> procs[p].fd, proc |-> p,
                                         mode |-> LockMode(p)]}]
  /\ procs' = [procs EXCEPT ![p].pc = IF procs[p].phase = "load" THEN "read"
                                      ELSE "tmp_open"]
  /\ UNCHANGED notStoreVars

\* A load that reads the temporary file when there is one.
LoadRead_temporary(p) ==
  /\ procs[p].pc = "read"
  /\ LET c == fs.content[IF fs.tmp # 0 THEN fs.tmp ELSE fs.target]
     IN procs' = [procs EXCEPT ![p] = [@ EXCEPT !.pc = "unlock", !.err = ~c.valid,
                                                !.data = c.records]]
  /\ UNCHANGED fs
  /\ UNCHANGED notStoreVars

\* _load_history line 180: the path is read and parsed under the lock.
LoadRead(p) ==
  /\ procs[p].pc = "read"
  /\ LET c == fs.content[fs.target]
     IN procs' = [procs EXCEPT ![p] = [@ EXCEPT !.pc = "unlock", !.err = ~c.valid,
                                                !.data = c.records]]
  /\ UNCHANGED fs
  /\ UNCHANGED notStoreVars

\* atomic_write line 82, first half: write_text opens the temporary for
\* writing, creating or truncating it.
AtomicWriteOpen(p) ==
  /\ procs[p].pc = "tmp_open"
  /\ IF fs.tmp = 0
     THEN /\ fs' = [fs EXCEPT !.content = Append(@, EmptyFile), !.tmp = Len(fs.content) + 1]
          /\ procs' = [procs EXCEPT ![p] = [@ EXCEPT !.pc = "tmp_write",
                                                     !.tmpfd = Len(fs.content) + 1]]
     ELSE /\ fs' = [fs EXCEPT !.content[fs.tmp] = EmptyFile]
          /\ procs' = [procs EXCEPT ![p] = [@ EXCEPT !.pc = "tmp_write", !.tmpfd = fs.tmp]]
  /\ UNCHANGED notStoreVars

\* atomic_write line 82, second half: the content is written and the file closed.
AtomicWriteText(p) ==
  /\ procs[p].pc = "tmp_write"
  /\ fs' = [fs EXCEPT !.content[procs[p].tmpfd] = FileContent(procs[p].data)]
  /\ procs' = [procs EXCEPT ![p].pc = "replace"]
  /\ UNCHANGED notStoreVars

\* atomic_write lines 83-87: temp_path.replace(path); without a temporary the
\* rename raises and the exception leaves file_lock.
AtomicWriteReplace(p) ==
  /\ procs[p].pc = "replace"
  /\ IF fs.tmp = 0
     THEN /\ procs' = [procs EXCEPT ![p] = [@ EXCEPT !.pc = "unlock", !.err = TRUE]]
          /\ UNCHANGED fs
     ELSE /\ fs' = [fs EXCEPT !.target = fs.tmp, !.tmp = 0]
          /\ procs' = [procs EXCEPT ![p].pc = "unlock"]
  /\ UNCHANGED notStoreVars

\* file_lock lines 64-65: the lock is released and the operation returns or
\* passes its exception on.
FileLockRelease(p) ==
  /\ procs[p].pc = "unlock"
  /\ fs' = [fs EXCEPT !.locks = {l \in @ : l.proc # p}]
  /\ procs' = [procs EXCEPT ![p] = IF procs[p].err THEN Finish(p, "error", <<>>)
                                   ELSE IF procs[p].phase = "load"
                                   THEN AfterLoad(p, procs[p].data)
                                   ELSE Finish(p, "ok", procs[p].data)]
  /\ UNCHANGED notStoreVars

\* The process dies in the middle of an operation (kill, power cut); the
\* kernel closes its files and drops its locks.
Crash(p) ==
  /\ procs[p].pc \notin {"idle", "crashed"}
  /\ fs' = [fs EXCEPT !.locks = {l \in @ : l.proc # p}]
  /\ procs' = [procs EXCEPT ![p] =
                 [@ EXCEPT !.pc = "crashed", !.crashed_at = procs[p].pc,
                           !.crashed_alone = \A q \in Procs \ {p} : procs[q].k = 0,
                           !.prior = IF fs.target = 0 THEN EmptyFile
                                     ELSE fs.content[fs.target]]]
  /\ UNCHANGED notStoreVars

\* ------------------------------------------- cli.py run / resume, daemon.py
\* Terminals from which `rasen run` or `rasen resume` is invoked on one state
\* directory.  An invocation is its own process; the PID file holds the name
\* of the invocation that wrote it.
Invocations == {"i1", "i2"}

NoCli ==
  [pid_file |-> "none",
   inv |-> [i \in Invocations |-> [pc |-> "idle", background |-> FALSE, runs |-> 0]]]

\* No `rasen run` invocation is in progress.
CliIdle == cli = NoCli

notCliVars == <<loopVars, fs, procs, runner, call, elapsed, metrics, memory>>

\* daemon.py is_process_running: signal 0 reaches a live process.
is_process_running(c, pid) ==
  pid \in Invocations /\ c.inv[pid].pc \in {"check", "daemonize", "write_pid", "running"}

\* daemon.py get_daemon_status: "running" of the PID the file names.
get_daemon_status(c) == c.pid_file # "none" /\ is_process_running(c, c.pid_file)

\* The command is invoked (cli.py line 260, or resume line 733).
CliInvoke(i, background) ==
  /\ cli.inv[i].pc \in {"idle", "refused", "exited"}
  /\ cli.inv[i].runs < MaxRuns
  /\ cli' = [cli EXCEPT !.inv[i] = [pc |-> "check", background |-> background,
                                    runs |-> @.runs + 1]]
  /\ UNCHANGED notCliVars

\* cli.py lines 282-286 (resume: 749-753): refuse when the PID file names a
\* live process; a foreground run goes on to the loop without writing it.
CliCheckRunning(i) ==
  /\ cli.inv[i].pc = "check"
  /\ cli' = [cli EXCEPT !.inv[i].pc =
               IF get_daemon_status(cli) THEN "refused"
               ELSE IF cli.inv[i].background THEN "daemonize" ELSE "running"]
  /\ UNCHANGED notCliVars

\* daemon.py daemonize lines 127-131: the same test once more, then the forks.
DaemonizeCheck(i) ==
  /\ cli.inv[i].pc = "daemonize"
  /\ cli' = [cli EXCEPT !.inv[i].pc =
               IF get_daemon_status(cli) THEN "refused" ELSE "write_pid"]
  /\ UNCHANGED notCliVars

\* daemon.py daemonize line 174, write_pid_file lines 31-39: the daemon
\* overwrites the PID file with its own PID and the loop starts.
DaemonizeWritePid(i) ==
  /\ cli.inv[i].pc = "write_pid"
  /\ cli' = [cli EXCEPT !.pid_file = i, !.inv[i].pc = "running"]
  /\ UNCHANGED notCliVars

\* cli.py lines 344-382: loop.run() returns or raises; only a background run
\* removes the PID file, whatever PID it holds.
CliLoopReturns(i) ==
  /\ cli.inv[i].pc = "running"
  /\ cli' = [cli EXCEPT !.inv[i].pc = "exited",
                        !.pid_file = IF cli.inv[i].background THEN "none" ELSE @]
  /\ UNCHANGED notCliVars

\* The process is killed (SIGKILL): no handler runs, the PID file stays.
CliKilled(i) ==
  /\ cli.inv[i].pc \in {"check", "daemonize", "write_pid", "running"}
  /\ cli' = [cli EXCEPT !.inv[i].pc = "exited"]
  /\ UNCHANGED notCliVars

\* Invocations that are executing the orchestration loop.
Orchestrators == {i \in Invocations : cli.inv[i].pc = "running"}

\* ------------------------------------------ claude_runner.run_claude_session
\* What an OS pipe holds before a write to it blocks, in the same units.
PipeCap == 1

Streams == {"stdout", "stderr"}

NoRunner ==
  [pc |-> "idle", prompt_left |-> 0, stdin_buf |-> 0, stdin_closed |-> FALSE,
   buf |-> [t \in Streams |-> 0], threads_started |-> FALSE,
   lines |-> [t \in Streams |-> 0],
   child |-> [pc |-> "none", op |-> "none", left |-> [t \in Streams |-> 0]],
   clock |-> 0, waited |-> 0, result |-> "none"]

\* No agent session is in progress.
RunnerIdle == runner = NoRunner

notRunnerVars == <<loopVars, fs, procs, cli, call, elapsed, metrics, memory>>

\* The parent is inside process.stdin.write and the pipe is full.
StdinWriteBlocked(r) ==
  r.pc = "stdin_write" /\ r.prompt_left > 0 /\ r.stdin_buf = PipeCap /\ r.child.pc = "running"

\* The child is inside a write to a full output pipe.
ChildWriteBlocked(r) ==
  r.child.pc = "running" /\ r.child.op \in Streams /\ r.buf[r.child.op] = PipeCap

\* Lines 193-201: Popen with three pipes; the child will print some amount on
\* each stream.
RunnerPopen(prompt, out, err) ==
  /\ runner.pc = "idle"
  /\ runner' = [NoRunner EXCEPT !.pc = "stdin_write", !.prompt_left = prompt,
                                !.child = [pc |-> "running", op |-> "none",
                                           left |-> [t \in Streams |->
                                                      IF t = "stdout" THEN out ELSE err]]]
  /\ UNCHANGED notRunnerVars

\* Line 205, process.stdin.write(prompt): the next part of the prompt goes
\* into the pipe when there is room; a child that has exited breaks the pipe
\* and the write raises (lines 319-321).
RunnerStdinWrite ==
  /\ runner.pc = "stdin_write"
  /\ runner.prompt_left > 0
  /\ \/ /\ runner.child.pc = "running"
        /\ runner.stdin_buf < PipeCap
        /\ runner' = [runner EXCEPT !.prompt_left = @ - 1, !.stdin_buf = @ + 1]
     \/ /\ runner.child.pc = "exited"
        /\ runner' = [runner EXCEPT !.pc = "raised", !.result = "failed"]
  /\ UNCHANGED notRunnerVars

\* Lines 206-224: stdin is closed and only then the two reader threads start;
\* line 231 begins the timed wait.
RunnerStartThreads ==
  /\ runner.pc = "stdin_write"
  /\ runner.prompt_left = 0
  /\ runner' = [runner EXCEPT !.pc = "wait", !.stdin_closed = TRUE,
                              !.threads_started = TRUE]
  /\ UNCHANGED notRunnerVars

\* _stream_output lines 85-95: a reader thread takes a line from its pipe
\* and appends it to stdout_lines / stderr_lines.
StreamOutput(t) ==
  /\ runner.threads_started
  /\ runner.buf[t] > 0
  /\ runner' = [runner EXCEPT !.buf[t] = @ - 1, !.lines[t] = @ + 1]
  /\ UNCHANGED notRunnerVars

\* Lines 231, 241-242: the child has exited, wait returns its code.
RunnerWaitReturns ==
  /\ runner.pc = "wait"
  /\ runner.child.pc = "exited"
  /\ runner' = [runner EXCEPT !.pc = "done", !.result = "returned"]
  /\ UNCHANGED notRunnerVars

\* Lines 232-238: the wait has lasted timeout seconds; the child is killed
\* and SessionError("... timed out ...") is raised.
RunnerTimeoutExpired ==
  /\ runner.pc = "wait"
  /\ runner.child.pc = "running"
  /\ runner.waited >= Timeout
  /\ runner' = [runner EXCEPT !.pc = "raised", !.result = "timeout", !.child.pc = "killed"]
  /\ UNCHANGED notRunnerVars

\* Time passes while the parent is blocked in the write or in the wait; the
\* wait does not outlast its timeout.
Tick ==
  /\ \/ StdinWriteBlocked(runner) /\ runner.clock <= Timeout
     \/ runner.pc = "wait" /\ runner.child.pc = "running" /\ runner.waited < Timeout
  /\ runner' = [runner EXCEPT !.clock = IF @ <= Timeout THEN @ + 1 ELSE @,
                              !.waited = IF runner.pc = "wait" THEN @ + 1 ELSE @]
  /\ UNCHANGED notRunnerVars

\* The child is any program: it picks its next system call.
ChildChoose(op) ==
  /\ runner.child.pc = "running"
  /\ runner.child.op = "none"
  /\ op \in Streams => runner.child.left[op] > 0
  /\ runner' = [runner EXCEPT !.child.op = op]
  /\ UNCHANGED notRunnerVars

\* read(0): takes what the pipe holds, or sees end of file once the parent
\* has closed it; blocks otherwise.
ChildRead ==
  /\ runner.child.pc = "running"
  /\ runner.child.op = "read"
  /\ \/ /\ runner.stdin_buf > 0
        /\ runner' = [runner EXCEPT !.stdin_buf = @ - 1, !.child.op = "none"]
     \/ /\ runner.stdin_buf = 0
        /\ runner.stdin_closed
        /\ runner' = [runner EXCEPT !.child.op = "none"]
  /\ UNCHANGED notRunnerVars

\* write(1) / write(2): blocks while the pipe is full.
ChildWrite(t) ==
  /\ runner.child.pc = "running"
  /\ runner.child.op = t
  /\ runner.buf[t] < PipeCap
  /\ runner' = [runner EXCEPT !.buf[t] = @ + 1, !.child.left[t] = @ - 1,
                              !.child.op = "none"]
  /\ UNCHANGED notRunnerVars

ChildExit ==
  /\ runner.child.pc = "running"
  /\ runner.child.op = "none"
  /\ runner' = [runner EXCEPT !.child.pc = "exited"]
  /\ UNCHANGED notRunnerVars

\* ------------------------------------------------- single function calls
NoCall == [fn |-> "none"]

\* No single function call is being followed.
CallIdle == call = NoCall

notCallVars == <<loopVars, fs, procs, cli, runner, elapsed, metrics, memory>>

\* validation.py lines 9-53: the call returns.
ValidateCompletion ==
  /\ call.fn = "validate_completion"
  /\ ~call.returned
  /\ call' = [call EXCEPT !.returned = TRUE,
                          !.result = validate_completion(call.events, call.backpressure_config)]
  /\ UNCHANGED notCallVars

\* qa.py lines 98-233: whether run_qa_for_subtask returns passed.  `session`
\* tells whether the QA session returned or raised SessionError, subtask_qa
\* is the status of the subtask's qa field in the reloaded plan ("absent":
\* no such field or no such subtask), plan_qa the status of the plan's.
run_qa_for_subtask(qa_enabled, session, plan_exists, subtask_qa, plan_qa) ==
  IF ~qa_enabled THEN TRUE
  ELSE IF session = "session_error" THEN FALSE
  ELSE IF ~plan_exists THEN FALSE
  ELSE IF subtask_qa # "absent"
  THEN (IF subtask_qa = "approved" THEN TRUE
        ELSE IF subtask_qa = "rejected" THEN FALSE
        ELSE TRUE)
  ELSE (IF plan_qa = "approved" THEN TRUE
        ELSE IF plan_qa = "rejected" THEN FALSE
        ELSE TRUE)

\* The call returns.
RunQAForSubtask ==
  /\ call.fn = "run_qa_for_subtask"
  /\ ~call.returned
  /\ call' = [call EXCEPT !.returned = TRUE,
                          !.passed = run_qa_for_subtask(call.qa_enabled, call.session,
                                                        call.plan_exists, call.subtask_qa,
                                                        call.plan_qa)]
  /\ UNCHANGED notCallVars

\* A name without a value in an environment or a shell file.
Unset == "unset"

AnthropicNames == {"ANTHROPIC_API_KEY", "ANTHROPIC_BASE_URL"}

\* claude_runner.py lines 19-57: the exports of the shell files; the first
\* file that exports a name wins; the files come in the order of lines 29-34, and
\* config_files[k][n] is the value file k exports for n, or Unset.
_load_anthropic_env(config_files) ==
  [n \in AnthropicNames |->
     IF \E k \in 1..Len(config_files) : config_files[k][n] # Unset
     THEN config_files[CHOOSE k \in 1..Len(config_files) :
                         /\ config_files[k][n] # Unset
                         /\ \A j \in 1..(k - 1) : config_files[j][n] = Unset][n]
     ELSE Unset]

\* claude_runner.py lines 186-189: env = os.environ.copy();
\* env.update(anthropic_env).
ChildEnv(environ, config_files) ==
  LET anthropic_env == _load_anthropic_env(config_files)
  IN [n \in AnthropicNames |-> IF anthropic_env[n] # Unset THEN anthropic_env[n] ELSE environ[n]]

\* run_claude_session builds the child's environment.
BuildEnv ==
  /\ call.fn = "run_claude_session"
  /\ ~call.returned
  /\ call' = [call EXCEPT !.returned = TRUE,
                          !.env = ChildEnv(call.environ, call.config_files)]
  /\ UNCHANGED notCallVars

\* ------------------------------------------------------------ wall clock
\* The run has not lasted max_runtime_seconds (config.py line 26).
WithinRuntime == elapsed = "within"

\* The clock passes started_at + max_runtime_seconds while run() is active.
RuntimeExceeded ==
  /\ pc # "done"
  /\ elapsed = "within"
  /\ elapsed' = "exceeded"
  /\ UNCHANGED <<loopVars, fs, procs, cli, runner, call, metrics, memory>>

\* ------------------------------------------------- stores/metrics_store.py
AgentTypes == {"coder", "qa"}

\* The SessionMetrics a caller hands to record_session (review.py lines
\* 166-179, qa.py lines 389-402): duration and timestamps come from one clock,
\* total_tokens from the session result.
SessionMetricsSet ==
  {[agent_type |-> a, duration_seconds |-> t[2] - t[1], input_tokens |-> i,
    output_tokens |-> o, total_tokens |-> i + o, started_at |-> t[1], completed_at |-> t[2]] :
     a \in AgentTypes, i \in 0..MaxTokens, o \in 0..MaxTokens,
     t \in {u \in (1..MaxTime) \X (1..MaxTime) : u[1] <= u[2]}}

\* models.py lines 188-199: AggregateMetrics(); a dict without a key reads 0.
AggregateMetrics ==
  [total_sessions |-> 0, total_duration_seconds |-> 0, total_input_tokens |-> 0,
   total_output_tokens |-> 0, total_tokens |-> 0,
   sessions_by_agent |-> [a \in AgentTypes |-> 0],
   tokens_by_agent |-> [a \in AgentTypes |-> 0],
   started_at |-> None, completed_at |-> None]

MetricsData == [sessions |-> <<>>, aggregate |-> AggregateMetrics]

\* metrics.json: absent, holding a MetricsData, or holding text that
\* MetricsData.model_validate_json rejects.
NoMetricsFile == [exists |-> FALSE, valid |-> TRUE, data |-> MetricsData]

CorruptMetricsFile == [exists |-> TRUE, valid |-> FALSE, data |-> MetricsData]

\* Lines 33-47: `except Exception: return MetricsData()`.
_load_data(file) ==
  IF ~file.exists THEN MetricsData
  ELSE IF file.valid THEN file.data
  ELSE MetricsData

\* Lines 49-57.
_save_data(data) == [exists |-> TRUE, valid |-> TRUE, data |-> data]

\* Lines 59-90.
record_session(file, m) ==
  LET data == _load_data(file)
      agg == data.aggregate
  IN _save_data(
       [sessions |-> Append(data.sessions, m),
        aggregate |->
          [total_sessions |-> agg.total_sessions + 1,
           total_duration_seconds |-> agg.total_duration_seconds + m.duration_seconds,
           total_input_tokens |-> agg.total_input_tokens + m.input_tokens,
           total_output_tokens |-> agg.total_output_tokens + m.output_tokens,
           total_tokens |-> agg.total_tokens + m.total_tokens,
           sessions_by_agent |-> [agg.sessions_by_agent EXCEPT ![m.agent_type] = @ + 1],
           tokens_by_agent |-> [agg.tokens_by_agent EXCEPT ![m.agent_type] = @ + m.total_tokens],
           started_at |-> IF agg.started_at = None THEN m.started_at ELSE agg.started_at,
           completed_at |-> m.completed_at]])

NoMetrics == [file |-> NoMetricsFile, calls |-> 0, outcome |-> "none"]

\* No record_session call has been followed and metrics.json is absent.
MetricsIdle == metrics = NoMetrics

notMetricsVars == <<loopVars, fs, procs, cli, runner, call, elapsed, memory>>

\* One record_session call, from entry to return; no statement of lines
\* 59-90 lets an exception of the load out, so the call returns.
RecordSession ==
  /\ metrics.calls < MaxRecords
  /\ \E m \in SessionMetricsSet :
       metrics' = [file |-> record_session(metrics.file, m),
                   calls |-> metrics.calls + 1,
                   outcome |-> "returned"]
  /\ UNCHANGED notMetricsVars

\* -------------------------------------------------- stores/memory_store.py
MemoryTypes == {"pattern", "decision", "fix"}

\* The memories file as the sequence of its markdown items: a heading line,
\* a bullet line `- text`, or an entry block `### id / > content / <!-- -->`
\* as _format_memory (lines 210-225) writes it.
Heading(text) == [kind |-> "heading", text |-> text, content |-> 0]

Bullet(content) == [kind |-> "bullet", text |-> "", content |-> content]

EntryBlock(content) == [kind |-> "entry", text |-> "", content |-> content]

\* Line 59: the template of a new file.
MemoryTemplate ==
  <<Heading("# Memories"), Heading("## Patterns"), Heading("## Decisions"), Heading("## Fixes")>>

\* Lines 62-67.
section_map(type) ==
  CASE type = "pattern" -> "## Patterns"
    [] type = "decision" -> "## Decisions"
    [] type = "fix" -> "## Fixes"

\* The first place of `section` in the content, 0 if it is not there.
FindSection(items, section) ==
  IF \E i \in 1..Len(items) : items[i] = Heading(section)
  THEN CHOOSE i \in 1..Len(items) :
         /\ items[i] = Heading(section)
         /\ \A j \in 1..(i - 1) : items[j] # Heading(section)
  ELSE 0

\* Lines 48-82: the content append writes; the entry goes right behind the
\* section heading (parts[1] = "\n" + entry + parts[1]), or with a new heading
\* to the end of a file that lacks the section.
append(file, mem) ==
  LET content == IF file.exists THEN file.items ELSE MemoryTemplate
      section == section_map(mem.type)
      at == FindSection(content, section)
      entry == EntryBlock(mem.content)
  IN [exists |-> TRUE,
      items |-> IF at # 0
                THEN SubSeq(content, 1, at) \o <<entry>> \o SubSeq(content, at + 1, Len(content))
                ELSE content \o <<Heading(section), entry>>]

\* Lines 153-162: the section a heading line opens.
TrackSection(text, current_section) ==
  CASE text = "## Decisions" -> "decision"
    [] text = "## Learnings" -> "pattern"
    [] text = "## Fixes" -> "fix"
    [] text = "## Patterns" -> "pattern"
    [] OTHER -> current_section

RECURSIVE ParseSimple(_, _)
\* Lines 146-177: the bullet lines under known sections.
ParseSimple(items, current_section) ==
  IF items = <<>> THEN <<>>
  ELSE LET it == Head(items)
           sec == IF it.kind = "heading" THEN TrackSection(it.text, current_section)
                  ELSE current_section
       IN (IF sec # "none" /\ it.kind = "bullet"
           THEN <<[type |-> sec, content |-> it.content]>> ELSE <<>>)
            \o ParseSimple(Tail(items), sec)

\* Lines 188-196: the type of the entry block at place i, from the text before it.
LegacyType(items, i) ==
  LET before == SubSeq(items, 1, i - 1)
      decisions == {j \in 1..Len(before) : before[j] = Heading("## Decisions")}
      fixes == {j \in 1..Len(before) : before[j] = Heading("## Fixes")}
  IN IF decisions # {} /\ \A j \in fixes : \E d \in decisions : d > j
     THEN "decision"
     ELSE IF fixes # {} THEN "fix"
     ELSE "pattern"

RECURSIVE ParseLegacy(_, _)
\* Lines 180-206: the entry blocks in the order of the file, from place i on.
ParseLegacy(items, i) ==
  IF i > Len(items) THEN <<>>
  ELSE (IF items[i].kind = "entry"
        THEN <<[type |-> LegacyType(items, i), content |-> items[i].content]>> ELSE <<>>)
         \o ParseLegacy(items, i + 1)

\* Lines 130-208.
_parse_memories(items) ==
  LET memories == ParseSimple(items, "none")
  IN IF memories # <<>> THEN memories ELSE ParseLegacy(items, 1)

\* Lines 36-46.
load(file) == IF ~file.exists THEN <<>> ELSE _parse_memories(file.items)

NoMemoryFile == [exists |-> FALSE, items |-> <<>>]

NoMemory == [file |-> NoMemoryFile, appended |-> <<>>]

\* No append call has been followed and the memories file is absent.
MemoryIdle == memory = NoMemory

notMemoryVars == <<loopVars, fs, procs, cli, runner, call, elapsed, metrics>>

\* One MemoryStore.append call; the entry's content names the call.
MemoryAppend ==
  /\ Len(memory.appended) < MaxAppends
  /\ \E type \in MemoryTypes :
       LET mem == [type |-> type, content |-> Len(memory.appended) + 1]
       IN memory' = [file |-> append(memory.file, mem),
                     appended |-> Append(memory.appended, mem)]
  /\ UNCHANGED notMemoryVars

SubsystemsIdle ==
  /\ StoresIdle /\ CliIdle /\ RunnerIdle /\ CallIdle /\ WithinRuntime /\ MetricsIdle
  /\ MemoryIdle

\* -------------------------------------------------------------------- Init
Init ==
  /\ config \in Configs
  /\ plan \in Plans \cup {NoPlan}
  /\ task_description \in (IF plan.exists THEN {"task"} ELSE {"", "task"})
  /\ git \in {[repo |-> FALSE, head |-> 0], [repo |-> TRUE, head |-> 1]}
  /\ status_file \in {NoStatus, StatusInfo(0, None, "initialized")}
  /\ history = <<>>
  /\ good_commits = <<>>
  /\ state = [iteration |-> 0, current_subtask_id |-> None, consecutive_failures |-> 0,
              total_commits |-> 0]
  /\ no_commit_counts = [i \in 1..MaxSubtasks |-> 0]
  /\ baseline_commit = _get_commit_hash(git)
  /\ shutdown_requested = FALSE
  /\ pc = "loop"
  /\ reason = "none"
  /\ qa = NoQA
  /\ sessions = [initializer |-> 0, coder |-> 0, reviewer |-> 0, qa |-> 0, fix |-> 0]
  /\ last = NoSession
  /\ boot = [plan_at_start |-> plan.exists, initializer_raised |-> FALSE]
  /\ SubsystemsIdle

\* ----------------------------------------------------------------- actions
\* run() returns r; the except clauses of lines 270-277 have already acted.
Terminate(r) == pc' = "done" /\ reason' = r

\* daemon.request_shutdown, called by the signal handler at any time.
RequestShutdown ==
  /\ pc # "done"
  /\ ~shutdown_requested
  /\ shutdown_requested' = TRUE
  /\ UNCHANGED <<config, task_description, git, plan, status_file, history, good_commits,
                 state, no_commit_counts, baseline_commit, pc, reason, qa, sessions, last, boot>>
  /\ UNCHANGED subsystemVars

should_shutdown == shutdown_requested

\* A while condition that lets one iteration more through.
LoopCondition_inclusive == state.iteration <= config.max_iterations

\* The while condition of line 73.
LoopCondition == state.iteration < config.max_iterations

\* Lines 267-268: the while condition fails.
MaxIterationsReached ==
  /\ pc = "loop"
  /\ ~LoopCondition
  /\ Terminate("max_iterations")
  /\ UNCHANGED <<config, task_description, git, plan, status_file, history, good_commits,
                 state, no_commit_counts, baseline_commit, shutdown_requested, qa, sessions, last,
                 boot>>
  /\ UNCHANGED subsystemVars

\* A shutdown exit that returns without the status update of lines 77-88.
ShutdownExit_silent ==
  /\ pc = "loop"
  /\ LoopCondition
  /\ should_shutdown
  /\ Terminate("user_cancelled")
  /\ UNCHANGED <<config, task_description, git, plan, status_file, history, good_commits, state,
                 no_commit_counts, baseline_commit, shutdown_requested, qa, sessions, last, boot>>
  /\ UNCHANGED subsystemVars

\* Lines 75-89.
ShutdownExit ==
  /\ pc = "loop"
  /\ LoopCondition
  /\ should_shutdown
  /\ status_file' = update(status_file,
                           StatusInfo(state.iteration, state.current_subtask_id, "interrupted"))
  /\ Terminate("user_cancelled")
  /\ UNCHANGED <<config, task_description, git, plan, history, good_commits, state,
                 no_commit_counts, baseline_commit, shutdown_requested, qa, sessions, last, boot>>
  /\ UNCHANGED subsystemVars

\* Lines 91-103: a new iteration loads the plan.
BeginIteration ==
  /\ pc = "loop"
  /\ LoopCondition
  /\ ~should_shutdown
  /\ state' = [state EXCEPT !.iteration = @ + 1]
  /\ IF plan.exists
     THEN /\ pc' = "select"
          /\ UNCHANGED <<status_file, reason>>
     ELSE IF task_description = ""
     THEN /\ status_file' = mark_failed(status_file, "No task description")
          /\ Terminate("error")
     ELSE /\ pc' = "initializer"
          /\ UNCHANGED <<status_file, reason>>
  /\ UNCHANGED <<config, task_description, git, plan, history, good_commits,
                 no_commit_counts, baseline_commit, shutdown_requested, qa, sessions, last, boot>>
  /\ UNCHANGED subsystemVars

\* An initializer step whose SessionError is swallowed: the loop goes on to
\* the plan the session left.
InitializerSession_swallowed ==
  /\ pc = "initializer"
  /\ \E raised \in BOOLEAN, written \in InitializerPlans \cup {NoPlan},
        commits \in 0..MaxCommitsPerSession :
       /\ ~git.repo => commits = 0
       /\ git' = [git EXCEPT !.head = @ + commits]
       /\ plan' = written
       /\ boot' = [boot EXCEPT !.initializer_raised = raised]
       /\ IF ~written.exists
          THEN /\ status_file' = mark_failed(status_file, "Plan creation failed")
               /\ Terminate("error")
          ELSE /\ pc' = "select"
               /\ UNCHANGED <<status_file, reason>>
  /\ sessions' = [sessions EXCEPT !.initializer = @ + 1]
  /\ UNCHANGED <<config, task_description, history, good_commits, state,
                 no_commit_counts, baseline_commit, shutdown_requested, qa, last>>
  /\ UNCHANGED subsystemVars

\* Lines 105-127 with _run_initializer_session: the session raises a
\* SessionError or returns, has or has not written a plan, and may have
\* committed to the repository it works in.
InitializerSession ==
  /\ pc = "initializer"
  /\ \E raised \in BOOLEAN, written \in InitializerPlans \cup {NoPlan},
        commits \in 0..MaxCommitsPerSession :
       /\ ~git.repo => commits = 0
       /\ git' = [git EXCEPT !.head = @ + commits]
       /\ plan' = written
       /\ boot' = [boot EXCEPT !.initializer_raised = raised]
       /\ IF raised
          THEN /\ status_file' = mark_failed(status_file, "Initializer failed")
               /\ Terminate("error")
          ELSE IF ~written.exists
          THEN /\ status_file' = mark_failed(status_file, "Plan creation failed")
               /\ Terminate("error")
          ELSE /\ pc' = "select"
               /\ UNCHANGED <<status_file, reason>>
  /\ sessions' = [sessions EXCEPT !.initializer = @ + 1]
  /\ UNCHANGED <<config, task_description, history, good_commits, state,
                 no_commit_counts, baseline_commit, shutdown_requested, qa, last>>
  /\ UNCHANGED subsystemVars

\* Lines 174-265: one coder session on the next subtask and what follows it.
CoderSession ==
  /\ pc = "select"
  /\ get_next_subtask(plan) # None
  /\ \E exc \in SessionErrors \cup {"none"}, returncode \in ReturnCodes, events \in EventLists,
        commits \in 0..MaxCommitsPerSession :
       LET raised == exc # "none"
           subtask == get_next_subtask(plan)
           sf1 == update(status_file, StatusInfo(state.iteration, subtask, "running"))
           p1 == mark_in_progress(plan, subtask)
           st1 == [state EXCEPT !.current_subtask_id = subtask]
           commit_before == _get_commit_hash(git)
           g1 == [git EXCEPT !.head = @ + commits]
           session_status == SessionStatusOf(returncode, events)
           success == session_status = "complete"
           ra == record_attempt(history, record_attempt_call, subtask, state.iteration,
                                success, IF success THEN _get_commit_hash(g1) ELSE None)
           seen == [subtask |-> subtask, raised |-> raised, exc |-> exc,
                    returncode |-> returncode,
                    completion |-> has_completion_event(events),
                    valid |-> validate_completion(events, config),
                    blocked |-> has_blocked_event(events), commits |-> commits,
                    review |-> "not_run",
                    zero_runs |-> IF raised THEN last.zero_runs
                                  ELSE [last.zero_runs EXCEPT
                                          ![subtask] = IF commits = 0 THEN @ + 1 ELSE 0]]
       IN /\ raised => (returncode = 1 /\ events = <<>>)
          /\ ~git.repo => commits = 0
          /\ git' = g1
          /\ IF raised
             THEN \* except SessionError, lines 260-262
                  /\ state' = [st1 EXCEPT !.consecutive_failures = @ + 1]
                  /\ pc' = "loop"
                  /\ plan' = p1
                  /\ status_file' = sf1
                  /\ last' = seen
                  /\ sessions' = [sessions EXCEPT !.coder = @ + 1]
                  /\ UNCHANGED <<history, good_commits, no_commit_counts, reason>>
             ELSE IF ra.kind = "raise"
             THEN \* TypeError out of _run_session, caught at line 274
                  /\ state' = st1
                  /\ plan' = p1
                  /\ status_file' = mark_failed(sf1, "TypeError")
                  /\ Terminate("error")
                  /\ last' = seen
                  /\ sessions' = [sessions EXCEPT !.coder = @ + 1]
                  /\ UNCHANGED <<history, good_commits, no_commit_counts>>
             ELSE \E rin \in ReviewInputs :
                    LET r == PostSession(config, p1, sf1, st1, no_commit_counts, good_commits,
                                         g1, subtask, commit_before, session_status, events, rin)
                    IN /\ state' = r.state
                       /\ plan' = r.plan
                       /\ no_commit_counts' = r.no_commit_counts
                       /\ good_commits' = r.good_commits
                       /\ history' = ra.history
                       /\ last' = [seen EXCEPT !.review = r.review]
                       /\ sessions' = [sessions EXCEPT !.coder = @ + 1,
                                                       !.reviewer = @ + r.reviewer,
                                                       !.fix = @ + r.fix]
                       /\ IF r.outcome = "continue"
                          THEN /\ pc' = "loop"
                               /\ status_file' = sf1
                               /\ UNCHANGED reason
                          ELSE /\ status_file' = mark_failed(sf1, r.detail)
                               /\ Terminate(r.outcome)
  /\ UNCHANGED <<config, task_description, baseline_commit, shutdown_requested, qa, boot>>
  /\ UNCHANGED subsystemVars

\* A final validation that does not wait until no subtask is left.
FinalValidation_early ==
  /\ pc = "select"
  /\ \E rin \in ReviewInputs :
       LET build_review == config.review_enabled /\ ~config.review_per_subtask
           rv == IF build_review THEN run_review_loop(config, status_file, plan, rin)
                 ELSE Return(TRUE, plan, 0, 0)
           review_passed == IF build_review THEN truth_value(rv) ELSE TRUE
           review == IF ~build_review THEN "not_run"
                     ELSE IF rv.kind = "raise" THEN "raised"
                     ELSE IF rv.passed THEN "passed" ELSE "failed"
           \* line 135: baseline_commit = self._get_commit_hash()
           gates == [NoQA EXCEPT !.review = review, !.baseline = _get_commit_hash(git)]
       IN /\ plan' = rv.plan
          /\ sessions' = [sessions EXCEPT !.reviewer = @ + rv.reviewer, !.fix = @ + rv.fix]
          /\ IF rv.kind = "raise"
             THEN /\ status_file' = mark_failed(status_file, rv.exc)
                  /\ Terminate("error")
                  /\ qa' = gates
             ELSE IF ~review_passed
             THEN /\ status_file' = mark_failed(status_file, "Review validation failed")
                  /\ Terminate("error")
                  /\ qa' = gates
             ELSE IF rv.plan.exists /\ config.qa_enabled
             THEN /\ pc' = "qa"
                  /\ qa' = [gates EXCEPT !.iteration = 1]
                  /\ UNCHANGED <<status_file, reason>>
             ELSE /\ status_file' = mark_completed(status_file)
                  /\ Terminate("complete")
                  /\ qa' = gates
  /\ UNCHANGED <<config, task_description, git, history, good_commits, state,
                 no_commit_counts, baseline_commit, shutdown_requested, last, boot>>
  /\ UNCHANGED subsystemVars

\* Lines 131-172: no subtask is left to work on.
FinalValidation ==
  /\ pc = "select"
  /\ get_next_subtask(plan) = None
  /\ \E rin \in ReviewInputs :
       LET build_review == config.review_enabled /\ ~config.review_per_subtask
           rv == IF build_review THEN run_review_loop(config, status_file, plan, rin)
                 ELSE Return(TRUE, plan, 0, 0)
           review_passed == IF build_review THEN truth_value(rv) ELSE TRUE
           review == IF ~build_review THEN "not_run"
                     ELSE IF rv.kind = "raise" THEN "raised"
                     ELSE IF rv.passed THEN "passed" ELSE "failed"
           \* line 135: baseline_commit = self._get_commit_hash()
           gates == [NoQA EXCEPT !.review = review, !.baseline = _get_commit_hash(git)]
       IN /\ plan' = rv.plan
          /\ sessions' = [sessions EXCEPT !.reviewer = @ + rv.reviewer, !.fix = @ + rv.fix]
          /\ IF rv.kind = "raise"
             THEN /\ status_file' = mark_failed(status_file, rv.exc)
                  /\ Terminate("error")
                  /\ qa' = gates
             ELSE IF ~review_passed
             THEN /\ status_file' = mark_failed(status_file, "Review validation failed")
                  /\ Terminate("error")
                  /\ qa' = gates
             ELSE IF rv.plan.exists /\ config.qa_enabled
             THEN /\ pc' = "qa"
                  /\ qa' = [gates EXCEPT !.iteration = 1]
                  /\ UNCHANGED <<status_file, reason>>
             ELSE /\ status_file' = mark_completed(status_file)
                  /\ Terminate("complete")
                  /\ qa' = gates
  /\ UNCHANGED <<config, task_description, git, history, good_commits, state,
                 no_commit_counts, baseline_commit, shutdown_requested, last, boot>>
  /\ UNCHANGED subsystemVars

\* run_qa_loop, lines 276-323: one iteration of the QA loop; when the loop
\* returns, lines 164-172 of OrchestrationLoop.run act on its result.
QAIteration ==
  /\ pc = "qa"
  /\ IF status_file.exists /\ "current_phase" \notin StatusInfoFields
     THEN \* status.current_phase = ... raises ValueError, caught at loop.py line 274
          /\ status_file' = mark_failed(status_file, "ValueError")
          /\ Terminate("error")
          /\ UNCHANGED <<plan, qa, sessions>>
     ELSE \E act \in QAActs, fix_raises \in BOOLEAN :
            LET p1 == IF act.kind \in {"approved", "rejected"}
                      THEN [plan EXCEPT !.qa = [status |-> act.kind, issues |-> act.issues]]
                      ELSE plan
                qa_result == QAResult(act, p1)
                counts == record(qa.issue_counts, qa_result.issues)
                escalate == ~qa_result.approved
                            /\ has_recurring_issues(counts, config.recurring_issue_threshold)
                returns == qa_result.approved \/ escalate
                           \/ qa.iteration >= config.qa_max_iterations
                qa_passed == [passed |-> qa_result.approved]
            IN /\ plan' = p1
               /\ IF returns
                  THEN /\ sessions' = [sessions EXCEPT !.qa = @ + 1]
                       /\ qa' = [qa EXCEPT !.issue_counts = counts, !.escalated = escalate,
                                           !.act = act.kind, !.event = act.event,
                                           !.result = IF qa_passed.passed THEN "passed"
                                                      ELSE "failed"]
                       /\ IF ~truth_value(qa_passed)
                          THEN /\ status_file' = mark_failed(status_file, "QA validation failed")
                               /\ Terminate("error")
                          ELSE /\ status_file' = mark_completed(status_file)
                               /\ Terminate("complete")
                  ELSE /\ sessions' = [sessions EXCEPT !.qa = @ + 1, !.fix = @ + 1]
                       /\ IF fix_raises
                          THEN \* SessionError out of run_qa_loop, caught at loop.py line 274
                               /\ qa' = [qa EXCEPT !.issue_counts = counts, !.act = act.kind,
                                                  !.event = act.event]
                               /\ status_file' = mark_failed(status_file, "SessionError")
                               /\ Terminate("error")
                          ELSE /\ qa' = [qa EXCEPT !.issue_counts = counts, !.act = act.kind,
                                                  !.event = act.event,
                                                  !.iteration = @ + 1]
                               /\ UNCHANGED <<status_file, pc, reason>>
  /\ UNCHANGED <<config, task_description, git, history, good_commits, state,
                 no_commit_counts, baseline_commit, shutdown_requested, last, boot>>
  /\ UNCHANGED subsystemVars

Next ==
  \/ RequestShutdown
  \/ MaxIterationsReached
  \/ ShutdownExit
  \/ BeginIteration
  \/ InitializerSession
  \/ CoderSession
  \/ FinalValidation
  \/ QAIteration

Spec == Init /\ [][Next]_vars

\* ------------------------------------------------- the run, every step taken
\* Runs with the no-commit threshold at 1 and the completion gates on; with
\* review enabled, runs of one iteration.
TerminationConfigs ==
  {c \in Configs : /\ c.max_no_commit_sessions = 1 /\ c.require_tests
                   /\ c.review_enabled
                        => (c.max_iterations = 1 /\ c.max_consecutive_failures = 1)}

InitTermination == Init /\ config \in TerminationConfigs

\* run() is one thread of control: while it has not returned, its next
\* statement is executed, every session it starts returning or raising.
SpecTermination == InitTermination /\ [][Next]_vars /\ WF_vars(Next)

\* ---------------------------------------------- the run against the clock
\* Runs with the stall thresholds at 1 and review off.
RuntimeConfigs ==
  {c \in Configs : /\ c.max_no_commit_sessions = 1 /\ c.max_consecutive_failures = 1
                   /\ ~c.review_enabled /\ c.require_tests}

InitRuntime == Init /\ config \in RuntimeConfigs

NextRuntime ==
  \/ RuntimeExceeded
  \/ RequestShutdown
  \/ MaxIterationsReached
  \/ ShutdownExit
  \/ BeginIteration
  \/ InitializerSession
  \/ CoderSession
  \/ FinalValidation
  \/ QAIteration

SpecRuntime == InitRuntime /\ [][NextRuntime]_vars

\* ------------------------------------------------- run_qa_loop on its own
\* The QA settings run_qa_loop is called with.
QALoopConfigs ==
  {[c EXCEPT !.qa_max_iterations = mi, !.recurring_issue_threshold = th] :
     c \in {d \in Configs : /\ d.qa_enabled /\ ~d.review_enabled /\ d.require_tests
                            /\ d.max_iterations = 1 /\ d.max_no_commit_sessions = 1
                            /\ d.max_consecutive_failures = 1},
     mi \in 1..MaxQAIterations, th \in 1..MaxThreshold}

\* The plans run_qa_loop is called on: every subtask is completed, and the
\* QA verdict is the one an earlier run or iteration left in the plan file.
QALoopPlans ==
  {[exists |-> TRUE, subtasks |-> <<"completed">>, review |-> [status |-> "pending"],
    qa |-> q] :
     q \in {[status |-> "pending", issues |-> <<>>], [status |-> "approved", issues |-> <<>>]}
            \cup {[status |-> "rejected", issues |-> l] : l \in IssueLists}}

\* OrchestrationLoop.run has reached line 156 and calls run_qa_loop.
InitQA ==
  /\ config \in QALoopConfigs
  /\ plan \in QALoopPlans
  /\ task_description = "task"
  /\ git = [repo |-> TRUE, head |-> 1]
  /\ status_file \in {NoStatus, StatusInfo(1, None, "running")}
  /\ history = <<>>
  /\ good_commits = <<>>
  /\ state = [iteration |-> 1, current_subtask_id |-> None, consecutive_failures |-> 0,
              total_commits |-> 0]
  /\ no_commit_counts = [i \in 1..MaxSubtasks |-> 0]
  /\ baseline_commit = _get_commit_hash(git)
  /\ shutdown_requested = FALSE
  /\ pc = "qa"
  /\ reason = "none"
  /\ qa = [NoQA EXCEPT !.iteration = 1, !.baseline = _get_commit_hash(git)]
  /\ sessions = [initializer |-> 0, coder |-> 0, reviewer |-> 0, qa |-> 0, fix |-> 0]
  /\ last = NoSession
  /\ boot = [plan_at_start |-> TRUE, initializer_raised |-> FALSE]
  /\ SubsystemsIdle

NextQA == QAIteration

SpecQA == InitQA /\ [][NextQA]_vars

\* ------------------------------------------------ the stores on their own
\* No orchestration loop is running in this process.
LoopIdle ==
  /\ config = CHOOSE c \in Configs : TRUE
  /\ plan = NoPlan
  /\ task_description = ""
  /\ git = [repo |-> FALSE, head |-> 0]
  /\ status_file = NoStatus
  /\ history = <<>>
  /\ good_commits = <<>>
  /\ state = [iteration |-> 0, current_subtask_id |-> None, consecutive_failures |-> 0,
              total_commits |-> 0]
  /\ no_commit_counts = [i \in 1..MaxSubtasks |-> 0]
  /\ baseline_commit = None
  /\ shutdown_requested = FALSE
  /\ pc = "done"
  /\ reason = "none"
  /\ qa = NoQA
  /\ sessions = [initializer |-> 0, coder |-> 0, reviewer |-> 0, qa |-> 0, fix |-> 0]
  /\ last = NoSession
  /\ boot = [plan_at_start |-> FALSE, initializer_raised |-> FALSE]

\* The store file is absent or holds what earlier runs saved.
SavedRecord == [by |-> "p0", n |-> 1]

InitStore ==
  /\ LoopIdle
  /\ fs \in {NoFiles,
              [NoFiles EXCEPT !.target = 1, !.content = <<FileContent(<<>>)>>],
              [NoFiles EXCEPT !.target = 1, !.content = <<FileContent(<<SavedRecord>>)>>]}
  /\ procs \in [Procs -> {[NoProc EXCEPT !.prog = g] : g \in Programs}]
  /\ CliIdle
  /\ RunnerIdle
  /\ CallIdle
  /\ WithinRuntime
  /\ MetricsIdle
  /\ MemoryIdle

NextStore ==
  \E p \in Procs :
    \/ StartOp(p)
    \/ LoadExists(p)
    \/ FileLockTouch(p)
    \/ FileLockOpen(p)
    \/ FileLockAcquire(p)
    \/ LoadRead(p)
    \/ AtomicWriteOpen(p)
    \/ AtomicWriteText(p)
    \/ AtomicWriteReplace(p)
    \/ FileLockRelease(p)
    \/ Crash(p)

SpecStore == InitStore /\ [][NextStore]_vars

\* ------------------------------------------- the command line on its own
InitCli ==
  /\ LoopIdle
  /\ StoresIdle
  /\ CliIdle
  /\ RunnerIdle
  /\ CallIdle
  /\ WithinRuntime
  /\ MetricsIdle
  /\ MemoryIdle

NextCli ==
  \E i \in Invocations :
    \/ \E background \in BOOLEAN : CliInvoke(i, background)
    \/ CliCheckRunning(i)
    \/ DaemonizeCheck(i)
    \/ DaemonizeWritePid(i)
    \/ CliLoopReturns(i)
    \/ CliKilled(i)

SpecCli == InitCli /\ [][NextCli]_vars

\* ------------------------------------------------ one session on its own
InitRunner ==
  /\ LoopIdle
  /\ StoresIdle
  /\ CliIdle
  /\ RunnerIdle
  /\ CallIdle
  /\ WithinRuntime
  /\ MetricsIdle
  /\ MemoryIdle

NextRunner ==
  \/ \E prompt \in 1..MaxPrompt : \E out \in 0..MaxOut : \E err \in 0..MaxOut :
       RunnerPopen(prompt, out, err)
  \/ RunnerStdinWrite
  \/ RunnerStartThreads
  \/ \E t \in Streams : StreamOutput(t)
  \/ RunnerWaitReturns
  \/ RunnerTimeoutExpired
  \/ Tick
  \/ \E op \in Streams \cup {"read"} : ChildChoose(op)
  \/ ChildRead
  \/ \E t \in Streams : ChildWrite(t)
  \/ ChildExit

SpecRunner == InitRunner /\ [][NextRunner]_vars

\* -------------------------------------------- validate_completion on its own
InitValidation ==
  /\ LoopIdle
  /\ StoresIdle
  /\ CliIdle
  /\ RunnerIdle
  /\ call \in [fn : {"validate_completion"},
                events : SeqsUpTo(ClaimEvents, MaxEvents),
                backpressure_config : [require_tests : BOOLEAN, require_lint : BOOLEAN],
                returned : {FALSE}, result : {FALSE}]
  /\ WithinRuntime
  /\ MetricsIdle
  /\ MemoryIdle

NextValidation == ValidateCompletion

SpecValidation == InitValidation /\ [][NextValidation]_vars

\* --------------------------------------------- the metrics store on its own
\* metrics.json is absent or unparsable when the first call is made.
InitMetrics ==
  /\ LoopIdle
  /\ StoresIdle
  /\ CliIdle
  /\ RunnerIdle
  /\ CallIdle
  /\ WithinRuntime
  /\ metrics \in {[NoMetrics EXCEPT !.file = f] : f \in {NoMetricsFile, CorruptMetricsFile}}
  /\ MemoryIdle

NextMetrics == RecordSession

SpecMetrics == InitMetrics /\ [][NextMetrics]_vars

\* ---------------------------------------------- the memory store on its own
\* The memories files append is called on: none, the template, a file with
\* an entry block of an earlier run, and files in the bullet-list form.
MemoryFiles ==
  {NoMemoryFile,
   [exists |-> TRUE, items |-> MemoryTemplate],
   [exists |-> TRUE,
    items |-> <<Heading("# Memories"), Heading("## Patterns"), EntryBlock(0),
                Heading("## Decisions"), Heading("## Fixes")>>],
   [exists |-> TRUE,
    items |-> <<Heading("# Memories"), Heading("## Patterns"), Bullet(0),
                Heading("## Decisions"), Heading("## Fixes")>>],
   [exists |-> TRUE, items |-> <<Heading("## Learnings"), Bullet(0)>>]}

InitMemory ==
  /\ LoopIdle
  /\ StoresIdle
  /\ CliIdle
  /\ RunnerIdle
  /\ CallIdle
  /\ WithinRuntime
  /\ MetricsIdle
  /\ memory \in {[NoMemory EXCEPT !.file = f] : f \in MemoryFiles}

NextMemory == MemoryAppend

SpecMemory == InitMemory /\ [][NextMemory]_vars

\* ------------------------------------ the child's environment on its own
\* The parent environment and the shell files hold a value or none for each
\* name; the value tells where it came from.
InitEnv ==
  /\ LoopIdle
  /\ StoresIdle
  /\ CliIdle
  /\ RunnerIdle
  /\ WithinRuntime
  /\ MetricsIdle
  /\ MemoryIdle
  /\ call \in [fn : {"run_claude_session"},
                environ : [AnthropicNames -> {Unset, "parent"}],
                config_files : {<<z, b>> : z \in [AnthropicNames -> {Unset, "zshrc"}],
                                          b \in [AnthropicNames -> {Unset, "bashrc"}]},
                returned : {FALSE},
                env : {[n \in AnthropicNames |-> Unset]}]

NextEnv == BuildEnv

SpecEnv == InitEnv /\ [][NextEnv]_vars

\* ------------------------------------------ run_qa_for_subtask on its own
InitSubtaskQA ==
  /\ LoopIdle
  /\ StoresIdle
  /\ CliIdle
  /\ RunnerIdle
  /\ WithinRuntime
  /\ MetricsIdle
  /\ MemoryIdle
  /\ call \in [fn : {"run_qa_for_subtask"},
                qa_enabled : BOOLEAN,
                session : {"returned", "session_error"},
                plan_exists : BOOLEAN,
                subtask_qa : {"absent", "pending", "approved", "rejected"},
                plan_qa : {"pending", "approved", "rejected"},
                returned : {FALSE},
                passed : {FALSE}]

NextSubtaskQA == RunQAForSubtask

SpecSubtaskQA == InitSubtaskQA /\ [][NextSubtaskQA]_vars

\* --------------------------------------------- run_review_loop on its own
\* The plans run_review_loop is called on: the review verdict is the one an
\* earlier run left in the plan file.
ReviewLoopPlans ==
  {[exists |-> TRUE, subtasks |-> <<"completed">>, review |-> [status |-> r],
    qa |-> [status |-> "pending", issues |-> <<>>]] :
     r \in {"pending", "approved", "changes_requested"}}

ReviewLoopConfigs ==
  {c \in Configs : /\ ~c.qa_enabled /\ c.require_tests /\ c.max_iterations = 1
                   /\ c.max_no_commit_sessions = 1 /\ c.max_consecutive_failures = 1}

\* A caller is about to call run_review_loop (loop.py line 144 or 218).
InitReview ==
  /\ config \in ReviewLoopConfigs
  /\ plan \in ReviewLoopPlans
  /\ task_description = "task"
  /\ git = [repo |-> TRUE, head |-> 1]
  /\ status_file \in {NoStatus, StatusInfo(1, None, "running")}
  /\ history = <<>>
  /\ good_commits = <<>>
  /\ state = [iteration |-> 1, current_subtask_id |-> None, consecutive_failures |-> 0,
              total_commits |-> 0]
  /\ no_commit_counts = [i \in 1..MaxSubtasks |-> 0]
  /\ baseline_commit = _get_commit_hash(git)
  /\ shutdown_requested = FALSE
  /\ pc = "review"
  /\ reason = "none"
  /\ qa = NoQA
  /\ sessions = [initializer |-> 0, coder |-> 0, reviewer |-> 0, qa |-> 0, fix |-> 0]
  /\ last = NoSession
  /\ boot = [plan_at_start |-> TRUE, initializer_raised |-> FALSE]
  /\ SubsystemsIdle

\* One call of run_review_loop, from entry to its return or exception; the
\* sessions it runs behave as review_inputs says.
ReviewRun ==
  /\ pc = "review"
  /\ \E rin \in ReviewInputs :
       LET rv == run_review_loop(config, status_file, plan, rin)
       IN /\ plan' = rv.plan
          /\ sessions' = [sessions EXCEPT !.reviewer = @ + rv.reviewer, !.fix = @ + rv.fix]
          /\ qa' = [qa EXCEPT !.review_inputs = rin,
                              !.review = IF rv.kind = "raise" THEN "raised"
                                         ELSE IF rv.passed THEN "passed" ELSE "failed"]
  /\ pc' = "done"
  /\ UNCHANGED <<config, task_description, git, status_file, history, good_commits, state,
                 no_commit_counts, baseline_commit, shutdown_requested, reason, last, boot>>
  /\ UNCHANGED subsystemVars

NextReview == ReviewRun

SpecReview == InitReview /\ [][NextReview]_vars

\* ------------------------------------------------------------------ claims
\* A step of the main loop that ran a coder session.
CoderStep == sessions'.coder = sessions.coder + 1

\* The coder session of this step returned with exit code 0 and a completion
\* event that validate_completion accepts.
ValidSession ==
  CoderStep /\ ~last'.raised /\ last'.returncode = 0 /\ last'.completion /\ last'.valid

NewlyCompleted(i) ==
  /\ i \in 1..Len(plan'.subtasks)
  /\ plan'.subtasks[i] = "completed"
  /\ (i \in 1..Len(plan.subtasks) => plan.subtasks[i] # "completed")

C2_CompleteOnlyIfGatesPassed ==
  reason = "complete"
    => /\ (config.review_enabled /\ ~config.review_per_subtask) => qa.review = "passed"
       /\ config.qa_enabled => qa.result = "passed"

C4_StalledExactlyAtThreshold ==
  /\ (\E i \in 1..MaxSubtasks : last.zero_runs[i] >= config.max_no_commit_sessions)
       => (pc = "done" /\ reason = "stalled")
  /\ reason = "stalled"
       => \E i \in 1..MaxSubtasks : last.zero_runs[i] = config.max_no_commit_sessions

\* C5 (as claimed): no coder session starts once consecutive_failures has
\* reached max_consecutive_failures, and a step in which the counter reaches
\* the threshold ends the run with consecutive_failures.
C5_NoSessionPastFailureThreshold ==
  [][ /\ CoderStep => state.consecutive_failures < config.max_consecutive_failures
      /\ (state.consecutive_failures < config.max_consecutive_failures
            /\ state'.consecutive_failures >= config.max_consecutive_failures)
           => (pc' = "done" /\ reason' = "consecutive_failures")
    ]_vars

\* C6 (as claimed): a run whose max_iterations iterations each executed a
\* coder session returns max_iterations, and the loop never executes more
\* than max_iterations iterations.
C6_MaxIterationsReturned ==
  /\ state.iteration <= config.max_iterations
  /\ (pc = "done" /\ sessions.coder = config.max_iterations) => reason = "max_iterations"

C8_ShutdownAtIterationBoundary ==
  [][ (pc = "loop" /\ LoopCondition /\ shutdown_requested)
        => /\ pc' = "done" /\ reason' = "user_cancelled"
           /\ status_file'.exists /\ status_file'.status = "interrupted"
           /\ sessions' = sessions
    ]_vars

\* The flag was set while the loop was running and the run was cancelled.
C8_Witness ==
  /\ pc = "done" /\ reason = "user_cancelled" /\ sessions.coder > 0
  /\ status_file.exists /\ status_file.status = "interrupted"

\* C9 (as claimed): whenever run() has returned, the last status record
\* describes the cause: "completed" for complete, "interrupted" for
\* user_cancelled, "failed" with a reason for every other termination.
C9_FinalStatusDescribesCause ==
  pc = "done"
    => /\ status_file.exists
       /\ status_file.status = CASE reason = "complete" -> "completed"
                                 [] reason = "user_cancelled" -> "interrupted"
                                 [] OTHER -> "failed"

\* C10 (as claimed): a coder session that exits 0 with a validated completion
\* claim, with per-subtask review disabled or passing, has its subtask marked
\* completed and a known-good commit recorded in the same step, whatever the
\* number of commits and also outside a git repository.
C10_ValidSessionCompletes ==
  [][ (ValidSession /\ (~(config.review_enabled /\ config.review_per_subtask)
                          \/ last'.review = "passed"))
        => /\ plan'.subtasks[last'.subtask] = "completed"
           /\ good_commits' = Append(good_commits,
                                     [hash |-> _get_commit_hash(git'),
                                      subtask_id |-> last'.subtask])
    ]_vars

\* A step of run_qa_loop that ran a QA session.
QAStep == pc = "qa" /\ sessions'.qa = sessions.qa + 1

\* C11 (as claimed): an iteration whose QA session fails or ends without
\* writing a verdict counts as rejected, and run_qa_loop returns passed only
\* in an iteration whose own QA session wrote the verdict approved.
C11_QAFailClosed ==
  [][ QAStep => /\ qa'.act \in {"session_error", "none"} => qa'.result # "passed"
                /\ qa'.result = "passed" => qa'.act = "approved"
    ]_vars

RecurringReached(issue_counts) ==
  \E n \in NormalizedIssues : issue_counts[n] >= config.recurring_issue_threshold

\* C13: run_qa_loop escalates, returning failed, in the first QA iteration
\* after which some normalized issue has been counted
\* recurring_issue_threshold times or more, never earlier, and no QA or
\* coder fix session runs after the escalation.
C13_EscalationAtThreshold ==
  [][ QAStep => /\ ~RecurringReached(qa.issue_counts)
                /\ qa'.escalated <=> RecurringReached(qa'.issue_counts)
                /\ qa'.escalated => /\ pc' = "done"
                                     /\ qa'.result = "failed"
                                     /\ sessions'.fix = sessions.fix
    ]_vars

\* The loop escalated in its second iteration, after one coder fix session.
C13_Witness == qa.escalated /\ qa.result = "failed" /\ sessions.qa = 2 /\ sessions.fix = 1

\* Iteration k of the review loop is reached: every earlier reviewer session
\* requested changes and every earlier coder fix session returned.
ReviewIterationReached(inputs, k) ==
  \A j \in 1..(k - 1) : inputs[j].reviewer = "changes_requested" /\ ~inputs[j].fix_raises

\* C12 (as claimed): an iteration of the review loop whose reviewer session
\* fails or ends without writing a verdict counts as approved: run_review_loop
\* returns passed in that iteration, also after earlier changes_requested
\* verdicts and coder fixes.
C12_ReviewFailOpen ==
  [][ (pc = "review" /\ pc' = "done" /\ config.review_enabled)
        => \A k \in 1..config.review_max_loops :
             (ReviewIterationReached(qa'.review_inputs, k)
                /\ qa'.review_inputs[k].reviewer \in {"session_error", "none"})
               => /\ qa'.review = "passed"
                  /\ sessions'.reviewer = k
                  /\ sessions'.fix = k - 1
    ]_vars

\* C14 (as claimed): run_review_loop with max_loops = N runs at most N
\* reviewer sessions and N-1 coder fix sessions in alternation; when the N-th
\* reviewer verdict is changes_requested it returns failed without a further
\* fix session; with review disabled it returns passed and runs no session.
C14_ReviewLoopBounded ==
  [][ (pc = "review" /\ pc' = "done")
        => LET N == config.review_max_loops
           IN IF ~config.review_enabled
              THEN qa'.review = "passed" /\ sessions'.reviewer = 0 /\ sessions'.fix = 0
              ELSE /\ sessions'.reviewer <= N
                   /\ sessions'.fix <= N - 1
                   /\ sessions'.fix \in {sessions'.reviewer - 1, sessions'.reviewer}
                   /\ (ReviewIterationReached(qa'.review_inputs, N)
                         /\ qa'.review_inputs[N].reviewer = "changes_requested")
                        => /\ qa'.review = "failed"
                           /\ sessions'.reviewer = N
                           /\ sessions'.fix = N - 1
    ]_vars

\* What load would return for the store file as it is on disk.
TargetRecords(f) == IF f.target = 0 THEN <<>> ELSE f.content[f.target].records

IsPrefix(a, b) == Len(a) <= Len(b) /\ SubSeq(b, 1, Len(a)) = a

\* C15 (as claimed): at every instant, and so after a crash at any step and
\* for every concurrent reader, the store file is absent or holds a complete
\* valid content; no load reads an empty or partially written file.
C15_StoreFileNeverHalfWritten ==
  /\ fs.target # 0 => fs.content[fs.target].valid
  /\ \A p \in Procs : (procs[p].pc = "unlock" /\ procs[p].phase = "load") => ~procs[p].err

\* C17 (as claimed): under any interleaving of record_attempt calls by
\* concurrent processes, the record of every call that returned is in the
\* attempt history, once, and the history only grows at its end.
C17_NoAttemptLost ==
  [][ /\ IsPrefix(TargetRecords(fs), TargetRecords(fs'))
      /\ \A p \in Procs : \A i \in 1..Len(procs'[p].results) :
           LET r == procs'[p].results[i]
           IN (r.op = "record_attempt" /\ r.status = "ok")
                => Cardinality({j \in 1..Len(TargetRecords(fs')) :
                                  TargetRecords(fs')[j] = [by |-> p, n |-> r.k]}) = 1
    ]_vars

\* Process q died between the write of the temporary file and the rename,
\* while no other process had touched the store, which held a saved content.
CrashedBeforeRename(q) ==
  /\ procs[q].pc = "crashed"
  /\ procs[q].crashed_at = "replace"
  /\ procs[q].crashed_alone
  /\ procs[q].prior.valid

\* C18: after a writer has crashed between writing the temporary file and the
\* rename, the next load returns the content saved before, unchanged (the
\* temporary file is not read), and a later save succeeds.
C18_CrashBeforeRenameIsHarmless ==
  [][ \A q \in Procs : \A p \in Procs \ {q} :
        CrashedBeforeRename(q)
          => /\ (procs[p].pc = "read" /\ procs[p].k = 1 /\ procs'[p].pc = "unlock")
                  => (~procs'[p].err /\ procs'[p].data = procs[q].prior.records)
             /\ (procs[p].pc = "unlock" /\ procs[p].phase = "save" /\ procs'[p].pc = "idle")
                  => /\ procs'[p].results[Len(procs'[p].results)].status = "ok"
                     /\ TargetRecords(fs') = procs[p].data
    ]_vars

\* After such a crash another process has loaded the saved record and saved
\* the history with its own record added.
C18_Witness ==
  \E q \in Procs : \E p \in Procs \ {q} :
    /\ CrashedBeforeRename(q)
    /\ procs[q].prior.records = <<SavedRecord>>
    /\ fs.tmp = 0
    /\ Len(procs[p].results) = 1
    /\ procs[p].results[1].status = "ok"
    /\ TargetRecords(fs) = <<SavedRecord, [by |-> p, n |-> 1]>>

\* C16 (as claimed): at most one invocation executes the orchestration loop on
\* a state directory at any time, foreground or background: an invocation
\* made while another executes the loop never comes to execute it too.
C16_SingleOrchestrator == Cardinality(Orchestrators) <= 1

\* C19 (as claimed): the session never deadlocks on its pipes: the parent is
\* never stuck writing the prompt while the child is stuck writing output
\* that no reader thread takes.
C19_NoPipeDeadlock == ~(StdinWriteBlocked(runner) /\ ChildWriteBlocked(runner))

\* C20 (as claimed): once more than the timeout has passed since the spawn,
\* the session is over: the child exited, or it was killed and the session
\* failed with the timeout error.
C20_TimeoutBoundsSession ==
  runner.clock > Timeout => runner.pc \in {"done", "raised"}

\* C21 (as claimed): every coder session of the main loop, however it ends,
\* appends exactly one AttemptRecord for its subtask, in the step of the
\* session and so before the next session starts.
C21_OneAttemptRecordPerSession ==
  [][ CoderStep
        => /\ Len(history') = Len(history) + 1
           /\ SubSeq(history', 1, Len(history)) = history
           /\ history'[Len(history')].subtask_id = last'.subtask
    ]_vars

\* C22 (as claimed): record_attempt accepts the error_message keyword: a
\* coder session that returned leaves a record whose error_message is the
\* tail of the output when the session did not succeed and printed something,
\* and none when it succeeded.
C22_ErrorMessagePersisted ==
  [][ (CoderStep /\ ~last'.raised)
        => /\ Len(history') = Len(history) + 1
           /\ LET r == history'[Len(history')]
                  success == last'.returncode = 0 /\ last'.completion
              IN /\ r.success = success
                 /\ success => r.error_message = "none"
                 /\ (~success /\ (last'.completion \/ last'.blocked))
                      => r.error_message = "tail"
    ]_vars

\* C23 (as claimed): a coder session that cannot be spawned because the
\* executable is missing ends the run; one that fails or times out adds one
\* to consecutive_failures and the loop goes on.
C23_MissingRunnerIsFatal ==
  [][ CoderStep
        => /\ last'.exc = "not_found" => pc' = "done"
           /\ last'.exc \in {"timeout", "failed"}
                => (pc' = "loop"
                    /\ state'.consecutive_failures = state.consecutive_failures + 1)
    ]_vars

\* C24: the subtask a coder session works on is the first in_progress subtask
\* in declared order if there is one, otherwise the first pending one; the
\* loop goes to final validation, selecting nothing, exactly when no subtask
\* is in_progress or pending; completed and failed subtasks are never selected.
C24_NextSubtaskSelection ==
  [][ LET n == Len(plan.subtasks)
          resumable == {j \in 1..n : plan.subtasks[j] = "in_progress"}
          fresh == {j \in 1..n : plan.subtasks[j] = "pending"}
      IN /\ CoderStep
              => LET s == last'.subtask
                 IN /\ s \in resumable \cup fresh
                    /\ \A j \in 1..(s - 1) : plan.subtasks[j] # plan.subtasks[s]
                    /\ s \in fresh => resumable = {}
         /\ (pc = "select" /\ pc' # "select" /\ ~CoderStep)
              => resumable \cup fresh = {}
         /\ (pc = "select" /\ resumable \cup fresh = {}) => ~CoderStep
    ]_vars

\* A coder session worked on the second subtask, which was in progress,
\* while the first one was pending.
C24_Witness ==
  /\ sessions.coder = 1
  /\ last.subtask = 2
  /\ plan.subtasks[1] = "pending"

\* The first completion event of a list, 0 when there is none.
FirstCompletion(events) ==
  LET idx == {i \in 1..Len(events) : events[i].topic \in {"build.done", "init.done"}}
  IN IF idx = {} THEN 0 ELSE CHOOSE i \in idx : \A j \in idx : i <= j

\* C25: validate_completion answers from the first completion event alone:
\* false when there is none; false when require_tests is set and that event's
\* payload lacks the tests-pass token in any letter case, and likewise for
\* require_lint and the lint-pass token, whatever later events say; true
\* otherwise, so always true for a list with a completion event when both
\* requirements are off.
C25_FirstCompletionEventDecides ==
  (call.fn = "validate_completion" /\ call.returned)
    => LET k == FirstCompletion(call.events)
           cfg == call.backpressure_config
       IN call.result
            = /\ k # 0
              /\ cfg.require_tests
                   => call.events[k].tests \in {"tests: pass", "TESTS: PASS", "test pass"}
              /\ cfg.require_lint
                   => call.events[k].lint \in {"lint: pass", "LINT: PASS", "lint pass"}

\* Tests were required, the first build.done carried no test evidence, a
\* later one carried it in capitals, and the call returned false.
C25_Witness ==
  /\ call.fn = "validate_completion" /\ call.returned /\ ~call.result
  /\ call.backpressure_config = [require_tests |-> TRUE, require_lint |-> FALSE]
  /\ call.events = <<Event("build.done", "", ""), Event("build.done", "TESTS: PASS", "")>>

\* Subtask i of the plan is completed.
Completed(p, i) == i \in 1..Len(p.subtasks) /\ p.subtasks[i] = "completed"

\* C26 (as claimed): no step of the run moves a completed subtask to another
\* status, and neither does any plan-store mutator when it is applied to a
\* completed subtask.
C26_CompletedIsFinal ==
  [][ /\ \A i \in 1..MaxSubtasks : Completed(plan, i) => Completed(plan', i)
      /\ \A i \in 1..MaxSubtasks :
           Completed(plan, i)
             => /\ Completed(mark_in_progress(plan, i), i)
                /\ Completed(mark_complete(plan, i), i)
                /\ Completed(mark_subtask_failed(plan, i), i)
    ]_vars

\* C26 (amended): no step of the main loop, the review sub-loop or the QA
\* sub-loop moves a completed subtask to another status, so the number of
\* completed subtasks never decreases during a run: the loop applies the
\* mutators only to the subtask get_next_subtask returned, which is not
\* completed.  The mutators themselves set the status they are given on any
\* subtask, a completed one included.
C26_CompletedNeverDecreases ==
  [][ /\ \A i \in 1..MaxSubtasks : Completed(plan, i) => Completed(plan', i)
      /\ get_completion_stats(plan')[1] >= get_completion_stats(plan)[1]
      /\ CoderStep => ~Completed(plan, last'.subtask)
      /\ \A i \in 1..MaxSubtasks :
           Completed(plan, i)
             => /\ ~Completed(mark_in_progress(plan, i), i)
                /\ ~Completed(mark_subtask_failed(plan, i), i)
    ]_vars

\* A coder session has worked on the second subtask of a plan whose first
\* subtask was completed, and the first one still is.
C26_Witness ==
  /\ sessions.coder = 1
  /\ last.subtask = 2
  /\ Completed(plan, 1)

C28_BlockedMarksFailed ==
  [][ /\ (CoderStep /\ ~last'.raised /\ last'.blocked /\ ~last'.completion)
           => /\ plan'.subtasks[last'.subtask] = "failed"
              /\ state'.consecutive_failures = state.consecutive_failures + 1
      /\ CoderStep => plan.subtasks[last'.subtask] # "failed"
    ]_vars

\* The step reached final validation (loop.py lines 131-172).
FinalValidationStep == pc = "select" /\ pc' \in {"qa", "done"} /\ ~CoderStep

\* C29 (as claimed): the baseline that final validation hands to the
\* build-level review and to the QA sub-loop is the HEAD captured when the
\* loop was constructed.
C29_FinalBaselineIsStartHead ==
  [][ (FinalValidationStep /\ (qa'.review # "not_run" \/ pc' = "qa"))
        => qa'.baseline = baseline_commit
    ]_vars

\* C30 (as claimed): once the run has lasted longer than max_runtime_seconds,
\* the loop, when it next stands at the top of an iteration with iterations
\* left and no shutdown requested, starts no session and returns max_runtime.
C30_MaxRuntimeEndsRun ==
  [][ (elapsed = "exceeded" /\ pc = "loop" /\ LoopCondition /\ ~should_shutdown
         /\ pc' # pc)
        => (pc' = "done" /\ reason' = "max_runtime" /\ sessions' = sessions)
    ]_vars

\* C31 (as claimed): a QA session that leaves the plan's verdict pending but
\* prints the event qa.approved is taken as approved, so run_qa_loop returns
\* passed in that iteration; a verdict held by the plan is the one used.
C31_EventVerdictAccepted ==
  [][ QAStep => /\ (plan'.qa.status = "pending" /\ qa'.event = "approved")
                     => (pc' = "done" /\ qa'.result = "passed")
                /\ (plan'.qa.status = "approved" /\ qa'.act # "session_error")
                     => (pc' = "done" /\ qa'.result = "passed")
                /\ (plan'.qa.status = "rejected" /\ pc' = "done") => qa'.result = "failed"
    ]_vars

\* A record_session call was made.
RecordStep == metrics'.calls = metrics.calls + 1

\* C32 (as claimed): a store operation on a file that exists but cannot be
\* parsed fails with an error and leaves the file as it was; here
\* record_session on an unparsable metrics.json.
C32_CorruptFileIsAnError ==
  [][ (RecordStep /\ metrics.file.exists /\ ~metrics.file.valid)
        => (metrics'.outcome = "raised" /\ metrics'.file = metrics.file)
    ]_vars

RECURSIVE SumOver(_, _)
\* The sum of column `col` of the session history.
SumOver(session_list, col) ==
  IF session_list = <<>> THEN 0
  ELSE Head(session_list)[col] + SumOver(Tail(session_list), col)

\* The sub-history of one agent type.
ByAgent(session_list, a) == SelectSeq(session_list, LAMBDA m : m.agent_type = a)

Earliest(session_list) ==
  CHOOSE t \in {session_list[i].started_at : i \in 1..Len(session_list)} :
    \A i \in 1..Len(session_list) : t <= session_list[i].started_at

Latest(session_list) ==
  CHOOSE t \in {session_list[i].completed_at : i \in 1..Len(session_list)} :
    \A i \in 1..Len(session_list) : t >= session_list[i].completed_at

\* C33 (as claimed): after any sequence of record_session calls the stored
\* aggregate is the fold of the stored session history: the session count, the
\* token and duration sums, the per-agent counts and token sums, the earliest
\* session start and the latest session completion.
C33_AggregateIsFoldOfHistory ==
  (metrics.calls > 0)
    => LET session_list == metrics.file.data.sessions
           agg == metrics.file.data.aggregate
       IN /\ metrics.file.exists /\ metrics.file.valid
          /\ agg.total_sessions = Len(session_list)
          /\ agg.total_duration_seconds = SumOver(session_list, "duration_seconds")
          /\ agg.total_input_tokens = SumOver(session_list, "input_tokens")
          /\ agg.total_output_tokens = SumOver(session_list, "output_tokens")
          /\ agg.total_tokens = SumOver(session_list, "total_tokens")
          /\ \A a \in AgentTypes :
               /\ agg.sessions_by_agent[a] = Len(ByAgent(session_list, a))
               /\ agg.tokens_by_agent[a] = SumOver(ByAgent(session_list, a), "total_tokens")
          /\ agg.started_at = Earliest(session_list)
          /\ agg.completed_at = Latest(session_list)

\* The place of the entry with this content in a loaded list, 0 if absent.
LoadedAt(loaded, mem) ==
  IF \E i \in 1..Len(loaded) : loaded[i] = mem
  THEN CHOOSE i \in 1..Len(loaded) : loaded[i] = mem
  ELSE 0

\* C34 (as claimed): after any sequence of append calls, on a new or an
\* existing memories file, load returns every appended entry, and entries of
\* one kind come in the order in which they were appended.
C34_LoadReturnsAppendedInOrder ==
  LET loaded == load(memory.file)
  IN /\ \A i \in 1..Len(memory.appended) : LoadedAt(loaded, memory.appended[i]) # 0
     /\ \A i, j \in 1..Len(memory.appended) :
          (i < j /\ memory.appended[i].type = memory.appended[j].type)
            => LoadedAt(loaded, memory.appended[i]) < LoadedAt(loaded, memory.appended[j])

\* C35 (as claimed): a name that is set in the parent environment keeps its
\* value in the child's environment; a scanned value is added only for a
\* name the parent environment does not set.
C35_ScannedNeverOverrides ==
  (call.fn = "run_claude_session" /\ call.returned)
    => \A n \in AnthropicNames :
         IF call.environ[n] # Unset THEN call.env[n] = call.environ[n]
         ELSE call.env[n] = _load_anthropic_env(call.config_files)[n]

\* C36: every run of the main loop returns, with exactly one termination
\* reason that is never changed afterwards; it begins at most max_iterations
\* iterations, and its QA sub-loop runs at most qa.max_iterations QA sessions
\* and its review sub-loops at most review.max_loops reviewer sessions each.
C36_RunTerminates ==
  /\ <>(pc = "done")
  /\ [](pc = "done" <=> reason # "none")
  /\ [][pc = "done" => reason' = reason]_vars
  /\ [](state.iteration <= config.max_iterations)
  /\ [](sessions.qa <= config.qa_max_iterations)
  /\ [][sessions'.reviewer <= sessions.reviewer + config.review_max_loops]_vars

\* A run that used up its iterations, each on a coder session.
C36_Witness ==
  /\ pc = "done" /\ reason = "max_iterations"
  /\ state.iteration = config.max_iterations
  /\ sessions.coder = config.max_iterations

\* C37 (as claimed): at no time do two processes hold file_lock on the store
\* path unless both locks are shared, also when the holder of the exclusive
\* lock has replaced the file by atomic_write.
C37_FileLockMutualExclusion ==
  \A l1, l2 \in fs.locks :
    l1.proc # l2.proc => (l1.mode = "shared" /\ l2.mode = "shared")

VerdictFound == IF call.subtask_qa # "absent" THEN call.subtask_qa ELSE call.plan_qa

\* C39 (as claimed): with QA enabled, run_qa_for_subtask returns passed only
\* if its QA session returned and the verdict found for the subtask is
\* approved; a failed session or a verdict left pending yields failed.
C39_SubtaskQAFailClosed ==
  (call.fn = "run_qa_for_subtask" /\ call.returned /\ call.qa_enabled /\ call.passed)
    => (call.session = "returned" /\ call.plan_exists /\ VerdictFound = "approved")

\* The subtasks of the plan that are in_progress.
InProgress(p) == {i \in 1..Len(p.subtasks) : p.subtasks[i] = "in_progress"}

\* C40: a step of the main loop from a plan with at most one in_progress
\* subtask leaves at most one in_progress; that subtask is the one the next
\* coder session selects, and a coder session works on it and on no other.
C40_OneInProgress ==
  [][ Cardinality(InProgress(plan)) <= 1
        => /\ Cardinality(InProgress(plan')) <= 1
           /\ \A i \in InProgress(plan') : get_next_subtask(plan') = i
           /\ CoderStep => /\ InProgress(plan) \subseteq {last'.subtask}
                           /\ InProgress(plan') \subseteq {last'.subtask}
    ]_vars

\* A coder session has worked on the second subtask, which is the one
\* in_progress, and the run goes on.
C40_Witness ==
  /\ pc = "loop" /\ sessions.coder >= 1
  /\ last.subtask = 2
  /\ InProgress(plan) = {2}

====
